---- MODULE Spec2Model ----
(***************************************************************************)
(* Model of nvim's multi-byte core (src/nvim/mbyte.c): the UTF-8 codec,    *)
(* the composing-character extender, utf_safe_read_char_adv, the iconv     *)
(* wrapper (my_iconv_open, iconv_string) and convert_setup_ext.            *)
(*                                                                         *)
(* A C pointer into a byte string is modelled as the sequence of bytes     *)
(* that starts at the pointer: p[i] in C is B(p, i) here and p + n is      *)
(* Adv(p, n).                                                              *)
(***************************************************************************)
EXTENDS Integers, Sequences, FiniteSets, TLC

VARIABLES codec, comp, rd, conv, ic, cn, tab, cell, sc, bom, up, cmp

vars == <<codec, comp, rd, conv, ic, cn, tab, cell, sc, bom, up, cmp>>

\* Value of the variables a specification does not use.
Idle == [phase |-> "unused"]

-----------------------------------------------------------------------------
(* Bounds *)

\* Half-width of the window of codepoints sampled around each power of two
\* and each range boundary.
Window == 3

\* Number of bytes of caller memory that follow the bytes under test.
Slack == 2

-----------------------------------------------------------------------------
(* Bytes and pointers *)

NUL == 0

Byte == 0..255

\* p[i]; memory past the modelled bytes reads as NUL.
B(p, i) == IF i >= 0 /\ i < Len(p) THEN p[i + 1] ELSE NUL

\* p + n
Adv(p, n) == SubSeq(p, n + 1, Len(p))

\* (b & 0xc0) == 0x80
IsCont(b) == b \div 64 = 2

Max(a, b) == IF a >= b THEN a ELSE b

Min(a, b) == IF a <= b THEN a ELSE b

-----------------------------------------------------------------------------
(* Lead-byte length tables *)

utf8len_tab_rows ==
  << 1,1,1,1,1,1,1,1,1,1,1,1,1,1,1,1,1,1,1,1,1,1,1,1,1,1,1,1,1,1,1,1,
     1,1,1,1,1,1,1,1,1,1,1,1,1,1,1,1,1,1,1,1,1,1,1,1,1,1,1,1,1,1,1,1,
     1,1,1,1,1,1,1,1,1,1,1,1,1,1,1,1,1,1,1,1,1,1,1,1,1,1,1,1,1,1,1,1,
     1,1,1,1,1,1,1,1,1,1,1,1,1,1,1,1,1,1,1,1,1,1,1,1,1,1,1,1,1,1,1,1,
     1,1,1,1,1,1,1,1,1,1,1,1,1,1,1,1,1,1,1,1,1,1,1,1,1,1,1,1,1,1,1,1,
     1,1,1,1,1,1,1,1,1,1,1,1,1,1,1,1,1,1,1,1,1,1,1,1,1,1,1,1,1,1,1,1,
     2,2,2,2,2,2,2,2,2,2,2,2,2,2,2,2,2,2,2,2,2,2,2,2,2,2,2,2,2,2,2,2,
     3,3,3,3,3,3,3,3,3,3,3,3,3,3,3,3,4,4,4,4,4,4,4,4,5,5,5,5,6,6,1,1 >>

utf8len_tab(b) == utf8len_tab_rows[b + 1]

utf8len_tab_zero_rows ==
  << 1,1,1,1,1,1,1,1,1,1,1,1,1,1,1,1,1,1,1,1,1,1,1,1,1,1,1,1,1,1,1,1,
     1,1,1,1,1,1,1,1,1,1,1,1,1,1,1,1,1,1,1,1,1,1,1,1,1,1,1,1,1,1,1,1,
     1,1,1,1,1,1,1,1,1,1,1,1,1,1,1,1,1,1,1,1,1,1,1,1,1,1,1,1,1,1,1,1,
     1,1,1,1,1,1,1,1,1,1,1,1,1,1,1,1,1,1,1,1,1,1,1,1,1,1,1,1,1,1,1,1,
     0,0,0,0,0,0,0,0,0,0,0,0,0,0,0,0,0,0,0,0,0,0,0,0,0,0,0,0,0,0,0,0,
     0,0,0,0,0,0,0,0,0,0,0,0,0,0,0,0,0,0,0,0,0,0,0,0,0,0,0,0,0,0,0,0,
     2,2,2,2,2,2,2,2,2,2,2,2,2,2,2,2,2,2,2,2,2,2,2,2,2,2,2,2,2,2,2,2,
     3,3,3,3,3,3,3,3,3,3,3,3,3,3,3,3,4,4,4,4,4,4,4,4,5,5,5,5,6,6,0,0 >>

utf8len_tab_zero(b) == utf8len_tab_zero_rows[b + 1]

-----------------------------------------------------------------------------
(* Codepoint codec *)

\* utf_ptr2char: the codepoint at p, or p[0] for an illegal sequence.
utf_ptr2char(p) ==
  LET len == utf8len_tab_zero(B(p, 0)) IN
  IF B(p, 0) < 128 THEN B(p, 0)
  ELSE IF len > 1 /\ IsCont(B(p, 1)) THEN
    IF len = 2 THEN (B(p, 0) % 32) * 64 + (B(p, 1) % 64)
    ELSE IF IsCont(B(p, 2)) THEN
      IF len = 3 THEN (B(p, 0) % 16) * 4096 + (B(p, 1) % 64) * 64
                      + (B(p, 2) % 64)
      ELSE IF IsCont(B(p, 3)) THEN
        IF len = 4 THEN (B(p, 0) % 8) * 262144 + (B(p, 1) % 64) * 4096
                        + (B(p, 2) % 64) * 64 + (B(p, 3) % 64)
        ELSE IF IsCont(B(p, 4)) THEN
          IF len = 5 THEN (B(p, 0) % 4) * 16777216 + (B(p, 1) % 64) * 262144
                          + (B(p, 2) % 64) * 4096 + (B(p, 3) % 64) * 64
                          + (B(p, 4) % 64)
          ELSE IF IsCont(B(p, 5)) /\ len = 6 THEN
            (B(p, 0) % 2) * 1073741824 + (B(p, 1) % 64) * 16777216
            + (B(p, 2) % 64) * 262144 + (B(p, 3) % 64) * 4096
            + (B(p, 4) % 64) * 64 + (B(p, 5) % 64)
          ELSE B(p, 0)
        ELSE B(p, 0)
      ELSE B(p, 0)
    ELSE B(p, 0)
  ELSE B(p, 0)

\* The highest index of p that utf_ptr2char reads: it reads p[i] only after
\* p[1..i-1] were continuation bytes and the length asks for more than i.
RECURSIVE ptr2char_scan(_, _, _)
ptr2char_scan(p, len, i) ==
  IF i >= len THEN i - 1
  ELSE IF IsCont(B(p, i)) THEN ptr2char_scan(p, len, i + 1)
  ELSE i

utf_ptr2char_reads(p) ==
  IF B(p, 0) < 128 THEN 0
  ELSE ptr2char_scan(p, utf8len_tab_zero(B(p, 0)), 1)

\* The loop of utf_ptr2len and utf_ptr2len_len: 1 when one of p[i..m-1] is
\* not a continuation byte, else len.
RECURSIVE cont_scan(_, _, _, _)
cont_scan(p, len, m, i) ==
  IF i >= m THEN len
  ELSE IF ~IsCont(B(p, i)) THEN 1
  ELSE cont_scan(p, len, m, i + 1)

\* utf_ptr2len with its loop started at the lead byte (i = 0).
utf_ptr2len_from0(p) ==
  IF B(p, 0) = NUL THEN 0
  ELSE cont_scan(p, utf8len_tab(B(p, 0)), utf8len_tab(B(p, 0)), 0)

\* utf_ptr2len: 0 for "", 1 for an illegal sequence.
utf_ptr2len(p) ==
  IF B(p, 0) = NUL THEN 0
  ELSE cont_scan(p, utf8len_tab(B(p, 0)), utf8len_tab(B(p, 0)), 1)

\* utf_ptr2len_len that checks all len bytes whatever the size.
utf_ptr2len_len_unbounded(p, size) ==
  LET len == utf8len_tab(B(p, 0)) IN
  IF len = 1 THEN 1 ELSE cont_scan(p, len, len, 1)

\* utf_ptr2len_len: like utf_ptr2len for p[size]; a length > size tells an
\* incomplete sequence; never 0.
utf_ptr2len_len(p, size) ==
  LET len == utf8len_tab(B(p, 0))
      m   == IF len > size THEN size ELSE len IN
  IF len = 1 THEN 1 ELSE cont_scan(p, len, m, 1)

\* The highest index utf_ptr2len_len reads.
RECURSIVE cont_scan_reads(_, _, _)
cont_scan_reads(p, m, i) ==
  IF i >= m THEN i - 1
  ELSE IF ~IsCont(B(p, i)) THEN i
  ELSE cont_scan_reads(p, m, i + 1)

utf_ptr2len_len_reads(p, size) ==
  LET len == utf8len_tab(B(p, 0))
      m   == IF len > size THEN size ELSE len IN
  IF len = 1 THEN 0 ELSE Max(0, cont_scan_reads(p, m, 1))

\* utf_char2len with the 16-bit threshold off by one.
utf_char2len_ffff(c) ==
  IF c < 128 THEN 1
  ELSE IF c < 2048 THEN 2
  ELSE IF c < 65535 THEN 3
  ELSE IF c < 2097152 THEN 4
  ELSE IF c < 67108864 THEN 5
  ELSE 6

\* utf_char2len
utf_char2len(c) ==
  IF c < 128 THEN 1
  ELSE IF c < 2048 THEN 2
  ELSE IF c < 65536 THEN 3
  ELSE IF c < 2097152 THEN 4
  ELSE IF c < 67108864 THEN 5
  ELSE 6

\* utf_char2bytes: the bytes written to buf[]; the return value is their
\* number.  Each byte is stored in a char_u (% 256).
utf_char2bytes(c) ==
  IF c < 128 THEN << c % 256 >>
  ELSE IF c < 2048 THEN
    << (192 + (c \div 64)) % 256, 128 + (c % 64) >>
  ELSE IF c < 65536 THEN
    << (224 + (c \div 4096)) % 256, 128 + ((c \div 64) % 64),
       128 + (c % 64) >>
  ELSE IF c < 2097152 THEN
    << (240 + (c \div 262144)) % 256, 128 + ((c \div 4096) % 64),
       128 + ((c \div 64) % 64), 128 + (c % 64) >>
  ELSE IF c < 67108864 THEN
    << (248 + (c \div 16777216)) % 256, 128 + ((c \div 262144) % 64),
       128 + ((c \div 4096) % 64), 128 + ((c \div 64) % 64),
       128 + (c % 64) >>
  ELSE
    << (252 + (c \div 1073741824)) % 256, 128 + ((c \div 16777216) % 64),
       128 + ((c \div 262144) % 64), 128 + ((c \div 4096) % 64),
       128 + ((c \div 64) % 64), 128 + (c % 64) >>

-----------------------------------------------------------------------------
(* Inputs of the codec checks *)

MaxCodepoint == 2147483647

\* Codepoints around every power of two (the encoder's thresholds 0x80,
\* 0x800, 0x10000, 0x200000, 0x4000000 are among them), around the surrogate
\* range and the end of Unicode, the whole of Latin-1, U+20AC, and the top
\* of the 31-bit range.
Codepoints ==
  LET around(t) == { c \in (t - Window)..(t + Window) : c >= 0 } IN
  UNION { around(2^k) : k \in 0..30 }
  \cup around(55296) \cup around(57344) \cup around(1114112)
  \cup 0..255 \cup { 8364 }
  \cup { MaxCodepoint - d : d \in 0..Window }

IsSurrogate(c) == c >= 55296 /\ c <= 57343

\* What the caller's buffer holds after the bytes under test.
Garbage == { NUL, 128, 255 }

Fill(b, n) == [ i \in 1..n |-> b ]

-----------------------------------------------------------------------------
(* Specification of the codec: encode a codepoint, then decode the bytes   *)
(* or query the length of a truncated copy.                                *)

CodecInit ==
  /\ codec = [phase |-> "idle"]
  /\ comp = Idle /\ rd = Idle /\ conv = Idle /\ ic = Idle
  /\ cn = Idle /\ tab = Idle /\ cell = Idle /\ sc = Idle
  /\ bom = Idle /\ up = Idle /\ cmp = Idle

\* n = utf_char2bytes(c, buf), buf[] being followed by unrelated bytes
CodecEncode ==
  /\ codec.phase = "idle"
  /\ \E c \in Codepoints, g \in Garbage :
       codec' = [phase |-> "encoded", c |-> c,
                 n |-> Len(utf_char2bytes(c)),
                 buf |-> utf_char2bytes(c) \o Fill(g, Slack)]
  /\ UNCHANGED <<comp, rd, conv, ic, cn, tab, cell, sc,
               bom, up, cmp>>

\* utf_ptr2char(buf) and utf_ptr2len(buf)
CodecDecode ==
  /\ codec.phase = "encoded"
  /\ codec' = [phase |-> "decoded", c |-> codec.c, n |-> codec.n,
               buf |-> codec.buf,
               char |-> utf_ptr2char(codec.buf),
               len |-> utf_ptr2len(codec.buf)]
  /\ UNCHANGED <<comp, rd, conv, ic, cn, tab, cell, sc,
               bom, up, cmp>>

\* utf_ptr2len_len(buf, k) on the first k bytes of the encoding
CodecTruncate ==
  /\ codec.phase = "encoded"
  /\ \E k \in 1..(codec.n - 1), g \in Garbage :
       LET e == SubSeq(codec.buf, 1, k) \o Fill(g, Slack) IN
       codec' = [phase |-> "truncated", c |-> codec.c, n |-> codec.n,
                 buf |-> e, k |-> k,
                 len |-> utf_ptr2len_len(e, k),
                 reads |-> utf_ptr2len_len_reads(e, k)]
  /\ UNCHANGED <<comp, rd, conv, ic, cn, tab, cell, sc,
               bom, up, cmp>>

CodecNext == CodecEncode \/ CodecDecode \/ CodecTruncate

SpecCodec == CodecInit /\ [][CodecNext]_vars

\* C1 as stated: for every codepoint c in 0..0x10FFFF that is not a
\* surrogate, decoding the bytes utf_char2bytes wrote gives c back
\* (utf_ptr2char) and a length equal to the number of bytes written
\* (utf_ptr2len).
C1_RoundTripFromZero ==
  (codec.phase = "decoded" /\ codec.c <= 1114111 /\ ~IsSurrogate(codec.c))
    => (codec.char = codec.c /\ codec.len = codec.n)

\* C1 amended: the round trip holds for every codepoint c in 1..0x10FFFF
\* that is not a surrogate; for c = 0 utf_ptr2char returns 0 but utf_ptr2len
\* returns 0 while the encoder wrote 1 byte.
C1_RoundTrip ==
  /\ (codec.phase = "decoded" /\ codec.c >= 1 /\ codec.c <= 1114111
        /\ ~IsSurrogate(codec.c))
       => (codec.char = codec.c /\ codec.len = codec.n)
  /\ (codec.phase = "decoded" /\ codec.c = 0)
       => (codec.char = 0 /\ codec.n = 1 /\ codec.len = 0)

\* U+20AC was encoded as E2 82 AC and decoded to (0x20AC, 3).
C1_Witness ==
  /\ codec.phase = "decoded" /\ codec.c = 8364
  /\ SubSeq(codec.buf, 1, 3) = <<226, 130, 172>>
  /\ codec.char = 8364 /\ codec.len = 3

\* C2: for every codepoint c in 0..0x7FFFFFFF the number of bytes written
\* by utf_char2bytes is in 1..6, equals utf_char2len(c) and equals
\* utf8len_tab of the first byte written.
C2_ShortestForm ==
  codec.phase = "encoded" =>
    /\ codec.n \in 1..6
    /\ codec.n = utf_char2len(codec.c)
    /\ codec.n = utf8len_tab(codec.buf[1])

\* The largest codepoint was encoded in 6 bytes with lead byte 0xFD.
C2_Witness ==
  /\ codec.phase = "encoded" /\ codec.c = MaxCodepoint
  /\ codec.n = 6 /\ codec.buf[1] = 253

\* C3: utf_ptr2len_len on the first k bytes (0 < k < L) of a valid encoding
\* of length L >= 2, with size k, returns a length > k and never 1.
C3_TruncatedNotIllegal ==
  codec.phase = "truncated" => (codec.len > codec.k /\ codec.len # 1)

\* The first 2 bytes of E2 82 AC were queried with size 2: the answer is 3.
C3_Witness ==
  /\ codec.phase = "truncated" /\ codec.c = 8364 /\ codec.k = 2
  /\ codec.n = 3 /\ codec.len = 3

-----------------------------------------------------------------------------
(* utf_safe_read_char_adv *)

\* utf_safe_read_char_adv with the fit test off by one (k <= n + 1).
utf_safe_read_char_adv_fit(s, n) ==
  LET k == utf8len_tab_zero(B(s, 0))
      c == utf_ptr2char(s)
      rds == Max(utf_ptr2char_reads(s),
                 IF c = B(s, 0) /\ c = 195 THEN 1 ELSE 0) IN
  IF n = 0 THEN [ret |-> 0, adv |-> 0, reads |-> -1]
  ELSE IF k = 1 THEN [ret |-> B(s, 0), adv |-> 1, reads |-> 0]
  ELSE IF k <= n + 1 THEN
    IF c # B(s, 0) \/ (c = 195 /\ B(s, 1) = 131)
    THEN [ret |-> c, adv |-> k, reads |-> rds]
    ELSE [ret |-> -1, adv |-> 0, reads |-> rds]
  ELSE [ret |-> -1, adv |-> 0, reads |-> 0]

\* utf_safe_read_char_adv without the special case for U+00C3.
utf_safe_read_char_adv_noC3(s, n) ==
  LET k == utf8len_tab_zero(B(s, 0))
      c == utf_ptr2char(s) IN
  IF n = 0 THEN [ret |-> 0, adv |-> 0, reads |-> -1]
  ELSE IF k = 1 THEN [ret |-> B(s, 0), adv |-> 1, reads |-> 0]
  ELSE IF k <= n THEN
    IF c # B(s, 0)
    THEN [ret |-> c, adv |-> k, reads |-> utf_ptr2char_reads(s)]
    ELSE [ret |-> -1, adv |-> 0, reads |-> utf_ptr2char_reads(s)]
  ELSE [ret |-> -1, adv |-> 0, reads |-> 0]

\* The body of utf_safe_read_char_adv(&s, &n) for the bytes s and the count
\* n: ret is the value returned, adv the number of bytes by which s is
\* advanced and n decreased, reads the highest index of s that was read
\* (-1 when no byte was read).
utf_safe_read_char_adv(s, n) ==
  LET k == utf8len_tab_zero(B(s, 0))
      c == utf_ptr2char(s) IN
  IF n = 0 THEN [ret |-> 0, adv |-> 0, reads |-> -1]
  ELSE IF k = 1 THEN [ret |-> B(s, 0), adv |-> 1, reads |-> 0]
  ELSE IF k <= n THEN
    IF c # B(s, 0) \/ (c = 195 /\ B(s, 1) = 131)
    THEN [ret |-> c, adv |-> k,
          reads |-> Max(utf_ptr2char_reads(s),
                        IF c = B(s, 0) /\ c = 195 THEN 1 ELSE 0)]
    ELSE [ret |-> -1, adv |-> 0,
          reads |-> Max(utf_ptr2char_reads(s),
                        IF c = B(s, 0) /\ c = 195 THEN 1 ELSE 0)]
  ELSE [ret |-> -1, adv |-> 0, reads |-> 0]

\* Bytes the hand-made inputs are built from: NUL, 'A', continuation bytes,
\* lead bytes of 2 and 3 byte sequences, an illegal byte.
ReadAlphabet == { NUL, 65, 128, 131, 160, 192, 195, 224, 255 }

\* Longest hand-made input.
MaxRaw == 3

RawInputs == UNION { [1..l -> ReadAlphabet] : l \in 0..MaxRaw }

\* Specification: a cursor over caller memory of which the first n bytes
\* may be read, advanced by repeated calls as utf_strnicmp does.  The memory
\* starts with the encoding of a codepoint (c >= 0) or with hand-made bytes
\* (c = -1).
ReadInit ==
  /\ \E g \in Garbage :
       \/ \E c \in Codepoints, t \in { <<>>, <<65>> } :
            \E n \in 0..Len(utf_char2bytes(c) \o t) :
              rd = [phase |-> "ready", c |-> c,
                    mem |-> utf_char2bytes(c) \o t \o Fill(g, Slack),
                    s |-> 0, n |-> n]
       \/ \E r \in RawInputs : \E n \in 0..Len(r) :
            rd = [phase |-> "ready", c |-> -1,
                  mem |-> r \o Fill(g, Slack), s |-> 0, n |-> n]
  /\ codec = Idle /\ comp = Idle /\ conv = Idle /\ ic = Idle
  /\ cn = Idle /\ tab = Idle /\ cell = Idle /\ sc = Idle
  /\ bom = Idle /\ up = Idle /\ cmp = Idle

\* c = utf_safe_read_char_adv(&s, &n)
ReadCall ==
  /\ rd.phase \in { "ready", "called" }
  /\ LET r == utf_safe_read_char_adv(Adv(rd.mem, rd.s), rd.n) IN
     rd' = [phase |-> "called", c |-> rd.c, mem |-> rd.mem,
            s |-> rd.s + r.adv, n |-> rd.n - r.adv,
            s0 |-> rd.s, n0 |-> rd.n, ret |-> r.ret, reads |-> r.reads]
  /\ UNCHANGED <<codec, comp, conv, ic, cn, tab, cell, sc,
               bom, up, cmp>>

ReadNext == ReadCall

SpecSafeRead == ReadInit /\ [][ReadNext]_vars

\* C5: utf_safe_read_char_adv reads no byte at an index >= n; when it
\* returns a character it advances the cursor by that character's byte
\* length and decreases n by the same amount; when it returns -1 the cursor
\* and n are unchanged.
C5_SafeReadAdvance ==
  rd.phase = "called" =>
    /\ rd.reads < rd.n0
    /\ (rd.ret # -1 /\ rd.n0 > 0) =>
         /\ rd.s - rd.s0 = utf8len_tab(B(rd.mem, rd.s0))
         /\ rd.n0 - rd.n = rd.s - rd.s0
         /\ rd.n >= 0
    /\ rd.ret = -1 => (rd.s = rd.s0 /\ rd.n = rd.n0)

\* The 3-byte character U+20AC was read with exactly 3 bytes remaining:
\* bytes 0..2 were read, the cursor moved by 3 and n dropped to 0.
C5_Witness ==
  /\ rd.phase = "called" /\ rd.c = 8364 /\ rd.s0 = 0 /\ rd.n0 = 3
  /\ rd.ret = 8364 /\ rd.s = 3 /\ rd.n = 0 /\ rd.reads = 2

\* C6: utf_safe_read_char_adv returns 0 only when n is 0 or the byte at the
\* cursor is NUL; with a non-NUL first byte and n > 0 it returns a positive
\* codepoint or -1.
C6_EndOnlyAtNulOrEmpty ==
  rd.phase = "called" =>
    /\ rd.ret = 0 => (rd.n0 = 0 \/ B(rd.mem, rd.s0) = NUL)
    /\ (rd.n0 > 0 /\ B(rd.mem, rd.s0) # NUL) => (rd.ret > 0 \/ rd.ret = -1)

\* C7: every shortest-form encoding of a codepoint c >= 0x80 that lies
\* within n is read as c (never -1), C3 83 as 0xC3; U+00C3 is the only such
\* codepoint equal to the lead byte of its encoding.
C7_ValidNeverInvalid ==
  (rd.phase = "called" /\ rd.c >= 128 /\ rd.s0 = 0
     /\ rd.n0 >= Len(utf_char2bytes(rd.c))) =>
    /\ rd.ret = rd.c
    /\ rd.s = Len(utf_char2bytes(rd.c))
    /\ (rd.c = B(rd.mem, 0)) => rd.c = 195

\* C3 83 was read with 2 bytes remaining: OK with codepoint 0xC3.
C7_Witness ==
  /\ rd.phase = "called" /\ rd.c = 195 /\ rd.s0 = 0 /\ rd.n0 = 2
  /\ SubSeq(rd.mem, 1, 2) = <<195, 131>>
  /\ rd.ret = 195 /\ rd.s = 2 /\ rd.n = 0

-----------------------------------------------------------------------------
(* Composing characters *)

\* Number of composing characters kept with a base character.
MAX_MCO == 6

\* The binary search of intable over table[bot..top] (0-based indices).
RECURSIVE intable_search(_, _, _, _)
intable_search(table, bot, top, c) ==
  LET mid == (bot + top) \div 2 IN
  IF top < bot THEN FALSE
  ELSE IF table[mid + 1][2] < c THEN intable_search(table, mid + 1, top, c)
  ELSE IF table[mid + 1][1] > c THEN intable_search(table, bot, mid - 1, c)
  ELSE TRUE

\* intable: is c in one of the intervals <<first, last>> of the table?
intable(table, c) ==
  IF c < table[1][1] THEN FALSE
  ELSE intable_search(table, 0, Len(table) - 1, c)

\* The first intervals of the generated table of combining characters.
combining ==
  << <<768, 879>>, <<1155, 1161>>, <<1425, 1469>>, <<1471, 1471>>,
     <<1473, 1474>>, <<1476, 1477>>, <<1479, 1479>> >>

\* utf_iscomposing
utf_iscomposing(c) == intable(combining, c)

\* arabic_maycombine: ALEF with MADDA, with HAMZA above or below, ALEF.
arabic_maycombine(two) == two \in { 1570, 1571, 1573, 1575 }

\* arabic_combine: LAM followed by a character that may combine.
arabic_combine(one, two) == one = 1604 /\ arabic_maycombine(two)

\* utf_composinglike: is the character at p2 composing when it follows the
\* character at p1?
utf_composinglike(p1, p2) ==
  LET c2 == utf_ptr2char(p2) IN
  IF utf_iscomposing(c2) THEN TRUE
  ELSE IF ~arabic_maycombine(c2) THEN FALSE
  ELSE arabic_combine(utf_ptr2char(p1), c2)

\* Content of a cell of pcc[] that was never written.
Unwritten == -1

\* The caller's pcc[] array, with two more cells behind it so that a write
\* past pcc[MAX_MCO - 1] shows.
FreshPcc == [ j \in 0..(MAX_MCO + 1) |-> Unwritten ]

\* The loop of utfc_ptr2char with a late test of the limit (i > MAX_MCO).
RECURSIVE utfc_ptr2char_loop_late(_, _, _, _, _)
utfc_ptr2char_loop_late(p, pcc, i, len, cc) ==
  LET pcc1 == [pcc EXCEPT ![i] = cc]
      len1 == len + utf_ptr2len(Adv(p, len)) IN
  IF i + 1 > MAX_MCO THEN [pcc |-> pcc1, i |-> i + 1, len |-> len]
  ELSE IF B(p, len1) < 128 \/ ~utf_iscomposing(utf_ptr2char(Adv(p, len1)))
    THEN [pcc |-> pcc1, i |-> i + 1, len |-> len1]
  ELSE utfc_ptr2char_loop_late(p, pcc1, i + 1, len1,
                               utf_ptr2char(Adv(p, len1)))

\* The for (;;) loop of utfc_ptr2char, entered with the composing
\* character cc found at p + len.
RECURSIVE utfc_ptr2char_loop(_, _, _, _, _)
utfc_ptr2char_loop(p, pcc, i, len, cc) ==
  LET pcc1 == [pcc EXCEPT ![i] = cc]
      len1 == len + utf_ptr2len(Adv(p, len)) IN
  IF i + 1 = MAX_MCO THEN [pcc |-> pcc1, i |-> i + 1, len |-> len]
  ELSE IF B(p, len1) < 128 \/ ~utf_iscomposing(utf_ptr2char(Adv(p, len1)))
    THEN [pcc |-> pcc1, i |-> i + 1, len |-> len1]
  ELSE utfc_ptr2char_loop(p, pcc1, i + 1, len1, utf_ptr2char(Adv(p, len1)))

\* utfc_ptr2char(p, pcc): c is the value returned, pcc the array it leaves,
\* i the number of composing characters stored, len the bytes they and the
\* base character take.
utfc_ptr2char(p, pcc) ==
  LET c   == utf_ptr2char(p)
      len == utf_ptr2len(p)
      r   == IF (len > 1 \/ B(p, 0) < 128) /\ B(p, len) >= 128
                /\ utf_composinglike(p, Adv(p, len))
             THEN utfc_ptr2char_loop(p, pcc, 0, len,
                                     utf_ptr2char(Adv(p, len)))
             ELSE [pcc |-> pcc, i |-> 0, len |-> len] IN
  [c |-> c, i |-> r.i, len |-> r.len,
   pcc |-> IF r.i < MAX_MCO THEN [r.pcc EXCEPT ![r.i] = 0] ELSE r.pcc]

\* The for loop of utfc_ptr2char_len leaving after the first composing
\* character (i < 1).
RECURSIVE utfc_ptr2char_len_loop_first(_, _, _, _, _, _)
utfc_ptr2char_len_loop_first(p, pcc, i, len, maxlen, reads) ==
  LET len_cc == utf_ptr2len_len(Adv(p, len), maxlen - len)
      safe   == len_cc > 1 /\ len_cc <= maxlen - len
      cc     == utf_ptr2char(Adv(p, len))
      rd1    == Max(reads, len + utf_ptr2len_len_reads(Adv(p, len),
                                                       maxlen - len))
      rd2    == Max(rd1, len + utf_ptr2char_reads(Adv(p, len)))
      comp_i == IF i = 0 THEN utf_composinglike(p, Adv(p, len))
                ELSE utf_iscomposing(cc) IN
  IF i >= 1 THEN [pcc |-> pcc, i |-> i, len |-> len, reads |-> reads]
  ELSE IF ~safe THEN [pcc |-> pcc, i |-> i, len |-> len, reads |-> rd1]
  ELSE IF cc < 128 \/ ~comp_i
    THEN [pcc |-> [pcc EXCEPT ![i] = cc], i |-> i, len |-> len,
          reads |-> rd2]
  ELSE utfc_ptr2char_len_loop_first(p, [pcc EXCEPT ![i] = cc], i + 1,
                                    len + len_cc, maxlen, rd2)

\* The for loop of utfc_ptr2char_len; reads is the highest index of p read
\* so far.
RECURSIVE utfc_ptr2char_len_loop(_, _, _, _, _, _)
utfc_ptr2char_len_loop(p, pcc, i, len, maxlen, reads) ==
  LET len_cc == utf_ptr2len_len(Adv(p, len), maxlen - len)
      safe   == len_cc > 1 /\ len_cc <= maxlen - len
      cc     == utf_ptr2char(Adv(p, len))
      rd1    == Max(reads, len + utf_ptr2len_len_reads(Adv(p, len),
                                                       maxlen - len))
      rd2    == Max(rd1, len + utf_ptr2char_reads(Adv(p, len)))
      comp_i == IF i = 0 THEN utf_composinglike(p, Adv(p, len))
                ELSE utf_iscomposing(cc) IN
  IF i >= MAX_MCO THEN [pcc |-> pcc, i |-> i, len |-> len, reads |-> reads]
  ELSE IF ~safe THEN [pcc |-> pcc, i |-> i, len |-> len, reads |-> rd1]
  ELSE IF cc < 128 \/ ~comp_i
    THEN [pcc |-> [pcc EXCEPT ![i] = cc], i |-> i, len |-> len,
          reads |-> rd2]
  ELSE utfc_ptr2char_len_loop(p, [pcc EXCEPT ![i] = cc], i + 1,
                              len + len_cc, maxlen, rd2)

\* utfc_ptr2char_len(p, pcc, maxlen), maxlen > 0.
utfc_ptr2char_len(p, pcc, maxlen) ==
  LET len  == utf_ptr2len_len(p, maxlen)
      safe == len > 1 /\ len <= maxlen
      c    == IF safe THEN utf_ptr2char(p) ELSE B(p, 0)
      rd0  == Max(utf_ptr2len_len_reads(p, maxlen),
                  IF safe THEN utf_ptr2char_reads(p) ELSE 0)
      r    == IF (safe \/ c < 128) /\ len < maxlen /\ B(p, len) >= 128
              THEN utfc_ptr2char_len_loop(p, pcc, 0, len, maxlen,
                                          Max(rd0, len))
              ELSE [pcc |-> pcc, i |-> 0, len |-> len,
                    reads |-> IF (safe \/ c < 128) /\ len < maxlen
                              THEN Max(rd0, len) ELSE rd0] IN
  [c |-> c, i |-> r.i, len |-> r.len, reads |-> r.reads,
   pcc |-> IF r.i < MAX_MCO THEN [r.pcc EXCEPT ![r.i] = 0] ELSE r.pcc]

\* The while loop of utfc_ptr2len_len.
RECURSIVE utfc_ptr2len_len_loop(_, _, _, _)
utfc_ptr2len_len_loop(p, size, prevlen, len) ==
  LET len_next_char == utf_ptr2len_len(Adv(p, len), size - len) IN
  IF len >= size THEN len
  ELSE IF B(p, len) < 128 THEN len
  ELSE IF len_next_char > size - len THEN len
  ELSE IF ~utf_composinglike(Adv(p, prevlen), Adv(p, len)) THEN len
  ELSE utfc_ptr2len_len_loop(p, size, len, len + len_next_char)

\* utfc_ptr2len_len: bytes of the character at p[size] with its composing
\* characters; 0 for an empty string, 1 for an illegal or incomplete one.
utfc_ptr2len_len(p, size) ==
  LET len == utf_ptr2len_len(p, size) IN
  IF size < 1 \/ B(p, 0) = NUL THEN 0
  ELSE IF B(p, 0) < 128 /\ (size = 1 \/ B(p, 1) < 128) THEN 1
  ELSE IF (len = 1 /\ B(p, 0) >= 128) \/ len > size THEN 1
  ELSE utfc_ptr2len_len_loop(p, size, 0, len)

\* The highest index of p that the loop of utfc_ptr2len_len reads: p[len],
\* the bytes utf_ptr2len_len checks, and those utf_composinglike decodes.
RECURSIVE utfc_ptr2len_len_loop_reads(_, _, _, _, _)
utfc_ptr2len_len_loop_reads(p, size, prevlen, len, reads) ==
  LET len_next_char == utf_ptr2len_len(Adv(p, len), size - len)
      c2  == utf_ptr2char(Adv(p, len))
      rd1 == Max(reads, len)
      rd2 == Max(rd1, len + utf_ptr2len_len_reads(Adv(p, len), size - len))
      rd3 == Max(rd2, len + utf_ptr2char_reads(Adv(p, len)))
      rd4 == IF ~utf_iscomposing(c2) /\ arabic_maycombine(c2)
             THEN Max(rd3, prevlen + utf_ptr2char_reads(Adv(p, prevlen)))
             ELSE rd3 IN
  IF len >= size THEN reads
  ELSE IF B(p, len) < 128 THEN rd1
  ELSE IF len_next_char > size - len THEN rd2
  ELSE IF ~utf_composinglike(Adv(p, prevlen), Adv(p, len)) THEN rd4
  ELSE utfc_ptr2len_len_loop_reads(p, size, len, len + len_next_char, rd4)

\* The highest index of p that utfc_ptr2len_len reads, -1 for none.
utfc_ptr2len_len_reads(p, size) ==
  LET len == utf_ptr2len_len(p, size) IN
  IF size < 1 THEN -1
  ELSE IF B(p, 0) = NUL THEN 0
  ELSE IF B(p, 0) < 128 /\ size = 1 THEN 0
  ELSE IF B(p, 0) < 128 /\ B(p, 1) < 128 THEN 1
  ELSE IF (len = 1 /\ B(p, 0) >= 128) \/ len > size
    THEN Max(IF B(p, 0) < 128 THEN 1 ELSE 0, utf_ptr2len_len_reads(p, size))
  ELSE utfc_ptr2len_len_loop_reads(
         p, size, 0, len,
         Max(IF B(p, 0) < 128 THEN 1 ELSE 0, utf_ptr2len_len_reads(p, size)))

\* Most U+0300 in a row in an input.
MaxComposing == 7

\* Characters and fragments the inputs are made of: 'a', U+00E9, LAM, a
\* lone lead byte, a stray continuation byte, U+0300, ALEF.
\* utfc_ptr2len with prevlen left at 0 in its loop.
utfc_ptr2len_prev0(p) ==
  LET RECURSIVE loop(_, _)
      loop(prevlen, len) ==
        IF B(p, len) < 128
             \/ ~utf_composinglike(Adv(p, prevlen), Adv(p, len))
          THEN len
          ELSE loop(prevlen, len + utf_ptr2len(Adv(p, len)))
      len0 == utf_ptr2len(p)
  IN IF B(p, 0) = NUL THEN 0
     ELSE IF B(p, 0) < 128 /\ B(p, 1) < 128 THEN 1
     ELSE IF len0 = 1 /\ B(p, 0) >= 128 THEN 1
     ELSE loop(0, len0)

\* utfc_ptr2len(p): the bytes of the character at p with all the composing
\* characters that follow it.
utfc_ptr2len(p) ==
  LET RECURSIVE loop(_, _)
      loop(prevlen, len) ==
        IF B(p, len) < 128
             \/ ~utf_composinglike(Adv(p, prevlen), Adv(p, len))
          THEN len
          ELSE loop(len, len + utf_ptr2len(Adv(p, len)))
      len0 == utf_ptr2len(p)
  IN IF B(p, 0) = NUL THEN 0
     ELSE IF B(p, 0) < 128 /\ B(p, 1) < 128 THEN 1
     ELSE IF len0 = 1 /\ B(p, 0) >= 128 THEN 1
     ELSE loop(0, len0)

BaseTokens == { <<97>>, <<195, 169>>, <<217, 132>>, <<204>>, <<128>> }

MarkTokens == { <<204, 128>>, <<216, 167>> }

RECURSIVE Repeat(_, _)
Repeat(t, n) == IF n = 0 THEN <<>> ELSE t \o Repeat(t, n - 1)

\* A first token, an optional second one, a run of U+0300, an optional
\* last token; the terminating NUL is added by the specification.
ComposingInputs ==
  { h \o m \o Repeat(<<204, 128>>, r) \o t :
      h \in BaseTokens \cup MarkTokens,
      m \in BaseTokens \cup MarkTokens \cup { <<>> },
      r \in 0..MaxComposing,
      t \in BaseTokens \cup MarkTokens \cup { <<>> } }

\* Specification: one call of utfc_ptr2char or utfc_ptr2char_len on a
\* NUL-terminated string and a fresh pcc[].
ComposingInit ==
  /\ \E str \in ComposingInputs :
       comp = [phase |-> "ready", p |-> str \o <<NUL>>]
  /\ codec = Idle /\ rd = Idle /\ conv = Idle /\ ic = Idle
  /\ cn = Idle /\ tab = Idle /\ cell = Idle /\ sc = Idle
  /\ bom = Idle /\ up = Idle /\ cmp = Idle

\* c = utfc_ptr2char(p, pcc)
ComposingPtr2Char ==
  /\ comp.phase = "ready"
  /\ LET r == utfc_ptr2char(comp.p, FreshPcc) IN
     comp' = [phase |-> "done", fn |-> "utfc_ptr2char", p |-> comp.p,
              maxlen |-> Len(comp.p), c |-> r.c, pcc |-> r.pcc, i |-> r.i,
              len |-> r.len, reads |-> -1]
  /\ UNCHANGED <<codec, rd, conv, ic, cn, tab, cell, sc,
               bom, up, cmp>>

\* c = utfc_ptr2char_len(p, pcc, maxlen)
ComposingPtr2CharLen ==
  /\ comp.phase = "ready"
  /\ \E maxlen \in 1..Len(comp.p) :
       LET r == utfc_ptr2char_len(comp.p, FreshPcc, maxlen) IN
       comp' = [phase |-> "done", fn |-> "utfc_ptr2char_len", p |-> comp.p,
                maxlen |-> maxlen, c |-> r.c, pcc |-> r.pcc, i |-> r.i,
                len |-> r.len, reads |-> r.reads]
  /\ UNCHANGED <<codec, rd, conv, ic, cn, tab, cell, sc,
               bom, up, cmp>>

\* utf_ptr2len_len(p, maxlen) and utfc_ptr2len_len(p, maxlen)
ComposingPtr2LenLen ==
  /\ comp.phase = "ready"
  /\ \E maxlen \in 1..Len(comp.p) :
       comp' = [phase |-> "measured", fn |-> "utfc_ptr2len_len",
                p |-> comp.p, maxlen |-> maxlen,
                len1 |-> utf_ptr2len_len(comp.p, maxlen),
                len |-> utfc_ptr2len_len(comp.p, maxlen),
                reads |-> Max(utf_ptr2len_len_reads(comp.p, maxlen),
                              utfc_ptr2len_len_reads(comp.p, maxlen))]
  /\ UNCHANGED <<codec, rd, conv, ic, cn, tab, cell, sc,
               bom, up, cmp>>

\* n = utfc_ptr2len(p), after c = utfc_ptr2char(p, pcc) on the same string
ComposingPtr2Len ==
  /\ comp.phase = "done" /\ comp.fn = "utfc_ptr2char"
  /\ comp' = [phase |-> "extent", fn |-> "utfc_ptr2len", p |-> comp.p,
              c |-> comp.c, pcc |-> comp.pcc, i |-> comp.i,
              n |-> utfc_ptr2len(comp.p)]
  /\ UNCHANGED <<codec, rd, conv, ic, cn, tab, cell, sc,
               bom, up, cmp>>

ComposingNext ==
  \/ ComposingPtr2Char \/ ComposingPtr2CharLen \/ ComposingPtr2LenLen
  \/ ComposingPtr2Len

SpecComposing == ComposingInit /\ [][ComposingNext]_vars

\* C4: utfc_ptr2char and utfc_ptr2char_len store at most 6 composing
\* codepoints, write only pcc[0..5], and when fewer than 6 were collected
\* the list ends with a 0 right after the last collected codepoint.
C4_ComposingBound ==
  comp.phase = "done" =>
    /\ comp.i \in 0..6
    /\ \A j \in 0..(MAX_MCO + 1) :
         /\ j < comp.i => comp.pcc[j] >= 128
         /\ (j = comp.i /\ comp.i < 6) => comp.pcc[j] = 0
         /\ (j > comp.i \/ j >= 6) => comp.pcc[j] = Unwritten

\* 'a' followed by seven U+0300: utfc_ptr2char stored six of them.
C4_Witness ==
  /\ comp.phase = "done" /\ comp.fn = "utfc_ptr2char"
  /\ comp.p = <<97>> \o Repeat(<<204, 128>>, 7) \o <<NUL>>
  /\ comp.c = 97 /\ comp.i = 6
  /\ \A j \in 0..5 : comp.pcc[j] = 768

\* C13: for every byte string, the base codepoint that utfc_ptr2char and
\* utfc_ptr2char_len return is never a codepoint that utf_iscomposing
\* classifies as composing.
C13_BaseNotComposing ==
  comp.phase = "done" => ~utf_iscomposing(comp.c)

\* C14: for every buffer and every size >= 1, utf_ptr2len_len,
\* utfc_ptr2len_len and utfc_ptr2char_len read no byte at an index >= size
\* (maxlen), also while probing for further composing characters after one
\* or more were accepted.
C14_BoundedReads ==
  (comp.phase \in { "done", "measured" } /\ comp.fn # "utfc_ptr2char")
    => comp.reads < comp.maxlen

\* The composing codepoints that follow the character ending at p + len
\* when each candidate is taken that starts with a byte >= 0x80, lies within
\* maxlen and is composing-like after the character at p + prev, up to
\* MAX_MCO of them.
RECURSIVE ComposingRun(_, _, _, _, _)
ComposingRun(p, prev, len, n, maxlen) ==
  LET l == utf_ptr2len_len(Adv(p, len), maxlen - len) IN
  IF n = MAX_MCO \/ len >= maxlen \/ B(p, len) < 128 \/ l > maxlen - len
     \/ ~utf_composinglike(Adv(p, prev), Adv(p, len))
  THEN <<>>
  ELSE <<utf_ptr2char(Adv(p, len))>>
       \o ComposingRun(p, len, len + l, n + 1, maxlen)

\* The composing codepoints the call stored in pcc[].
Stored == [ j \in 1..comp.i |-> comp.pcc[j - 1] ]

\* C15 as stated: utfc_ptr2char and utfc_ptr2char_len accept every
\* successive candidate after the base whose first byte is >= 0x80 and that
\* is a combining mark or combine-like with the codepoint before it, and
\* stop only at 6 composing codepoints or at the first candidate that is
\* neither.
C15_AcceptsEveryCandidate ==
  comp.phase = "done" =>
    Stored = ComposingRun(comp.p, 0, utf_ptr2len_len(comp.p, comp.maxlen),
                          0, comp.maxlen)

\* C15 amended: after a base that is not an illegal or incomplete sequence
\* both functions accept every successive candidate (for utfc_ptr2char_len:
\* every one that lies within maxlen) whose first byte is >= 0x80 and that
\* is a combining mark or combine-like with the codepoint before it, up to
\* 6; after an illegal or incomplete base they accept none.
C15_AcceptsAfterLegalBase ==
  comp.phase = "done" =>
    LET len   == utf_ptr2len_len(comp.p, comp.maxlen)
        legal == (len > 1 /\ len <= comp.maxlen) \/ B(comp.p, 0) < 128 IN
    /\ legal => Stored = ComposingRun(comp.p, 0, len, 0, comp.maxlen)
    /\ ~legal => comp.i = 0

\* LAM, ALEF, U+0300 read by utfc_ptr2char_len: ALEF was accepted as
\* combine-like after LAM and U+0300 as a combining mark after it.
C15_Witness ==
  /\ comp.phase = "done" /\ comp.fn = "utfc_ptr2char_len"
  /\ comp.p = <<217, 132, 216, 167, 204, 128, NUL>> /\ comp.maxlen = 6
  /\ comp.c = 1604 /\ comp.i = 2
  /\ comp.pcc[0] = 1575 /\ comp.pcc[1] = 768

-----------------------------------------------------------------------------
(* Conversion contexts: convert_setup_ext and my_iconv_open *)

\* Most converters iconv_open hands out in one run.
MaxHandles == 3

\* The conversion contexts (vimconv_T) of the run.
Contexts == { 1, 2 }

NullName == "(null)"

\* The calls <<from, from_unicode_is_utf8, to, to_unicode_is_utf8>> a
\* context is established with: one or more for each branch of
\* convert_setup_ext, names being NULL, "" or canonical.
NamePairs ==
  { <<"", TRUE, "utf-8", TRUE>>, <<"koi8-r", TRUE, NullName, TRUE>>,
    <<"latin1", TRUE, "latin1", TRUE>>, <<"latin1", TRUE, "utf-8", TRUE>>,
    <<"iso-8859-15", TRUE, "utf-8", TRUE>>,
    <<"utf-8", TRUE, "latin1", TRUE>>,
    <<"utf-8", TRUE, "iso-8859-15", TRUE>>,
    <<"latin1", TRUE, "ucs-2", TRUE>>, <<"latin1", TRUE, "ucs-2", FALSE>>,
    <<"koi8-r", TRUE, "utf-8", TRUE>>, <<"utf-8", TRUE, "koi8-r", TRUE>> }

\* enc_canon_props for these names: the property bits as a set.
enc_canon_props(name) ==
  IF name = "latin1" THEN { "ENC_8BIT", "ENC_LATIN1" }
  ELSE IF name = "iso-8859-15" THEN { "ENC_8BIT", "ENC_LATIN9" }
  ELSE IF name = "koi8-r" THEN { "ENC_8BIT" }
  ELSE IF name = "utf-8" THEN { "ENC_UNICODE" }
  ELSE IF name = "ucs-2" THEN { "ENC_UNICODE", "ENC_ENDIAN_B", "ENC_2BYTE" }
  ELSE {}

\* iconv_close(fd), counted per handle.
iconv_close(env, fd) ==
  IF fd \in 1..MaxHandles THEN [env EXCEPT !.closes[fd] = @ + 1] ELSE env

\* my_iconv_open that does not look at a Broken status first.
my_iconv_open_retry(env, openOk, broken) ==
  LET fd   == IF openOk THEN env.nopen + 1 ELSE -1
      env1 == IF openOk THEN [env EXCEPT !.nopen = @ + 1] ELSE env IN
  IF fd # -1 /\ env.iconv_working = "kUnknown" THEN
    IF broken
    THEN [fd |-> -1, called |-> TRUE, tested |-> TRUE,
          env |-> iconv_close([env1 EXCEPT !.iconv_working = "kBroken",
                                           !.ntests = @ + 1], fd)]
    ELSE [fd |-> fd, called |-> TRUE, tested |-> TRUE,
          env |-> [env1 EXCEPT !.iconv_working = "kWorking",
                               !.ntests = @ + 1]]
  ELSE [fd |-> fd, called |-> TRUE, tested |-> FALSE, env |-> env1]

\* my_iconv_open: openOk tells whether iconv_open() succeeds, broken
\* whether the dummy iconv() call leaves the "to" pointer NULL.  The result
\* holds the handle returned (-1 for failure), whether iconv_open() was
\* called and whether the self-test was run.
my_iconv_open(env, openOk, broken) ==
  LET fd   == IF openOk THEN env.nopen + 1 ELSE -1
      env1 == IF openOk THEN [env EXCEPT !.nopen = @ + 1] ELSE env IN
  IF env.iconv_working = "kBroken"
  THEN [fd |-> -1, called |-> FALSE, tested |-> FALSE, env |-> env]
  ELSE IF fd # -1 /\ env.iconv_working = "kUnknown" THEN
    IF broken
    THEN [fd |-> -1, called |-> TRUE, tested |-> TRUE,
          env |-> iconv_close([env1 EXCEPT !.iconv_working = "kBroken",
                                           !.ntests = @ + 1], fd)]
    ELSE [fd |-> fd, called |-> TRUE, tested |-> TRUE,
          env |-> [env1 EXCEPT !.iconv_working = "kWorking",
                               !.ntests = @ + 1]]
  ELSE [fd |-> fd, called |-> TRUE, tested |-> FALSE, env |-> env1]

\* The reset of convert_setup_ext that closes vc_fd whatever vc_type is.
convert_reset_any(vcp, env) ==
  [vcp |-> [vcp EXCEPT !.vc_type = "CONV_NONE", !.vc_factor = 1,
                       !.vc_fail = FALSE],
   env |-> IF vcp.vc_fd # -1 THEN iconv_close(env, vcp.vc_fd) ELSE env]

\* "Reset to no conversion", the first step of convert_setup_ext.
convert_reset(vcp, env) ==
  [vcp |-> [vcp EXCEPT !.vc_type = "CONV_NONE", !.vc_factor = 1,
                       !.vc_fail = FALSE],
   env |-> IF vcp.vc_type = "CONV_ICONV" /\ vcp.vc_fd # -1
           THEN iconv_close(env, vcp.vc_fd) ELSE env]

\* convert_setup_ext(vcp, from, from_unicode_is_utf8, to, to_unicode_is_utf8)
convert_setup_ext(vcp, env, from, fu8, to, tu8, openOk, broken) ==
  LET r0 == convert_reset(vcp, env)
      from_prop == enc_canon_props(from)
      to_prop   == enc_canon_props(to)
      from_is_utf8 == IF fu8 THEN "ENC_UNICODE" \in from_prop
                      ELSE from_prop = { "ENC_UNICODE" }
      to_is_utf8   == IF tu8 THEN "ENC_UNICODE" \in to_prop
                      ELSE to_prop = { "ENC_UNICODE" }
      o  == my_iconv_open(r0.env, openOk, broken)
      none == [called |-> FALSE, tested |-> FALSE] IN
  IF from = NullName \/ from = "" \/ to = NullName \/ to = "" \/ from = to
  THEN [vcp |-> r0.vcp, env |-> r0.env, ret |-> "OK", open |-> none]
  ELSE IF "ENC_LATIN1" \in from_prop /\ to_is_utf8
  THEN [vcp |-> [r0.vcp EXCEPT !.vc_type = "CONV_TO_UTF8", !.vc_factor = 2],
        env |-> r0.env, ret |-> "OK", open |-> none]
  ELSE IF "ENC_LATIN9" \in from_prop /\ to_is_utf8
  THEN [vcp |-> [r0.vcp EXCEPT !.vc_type = "CONV_9_TO_UTF8",
                               !.vc_factor = 3],
        env |-> r0.env, ret |-> "OK", open |-> none]
  ELSE IF from_is_utf8 /\ "ENC_LATIN1" \in to_prop
  THEN [vcp |-> [r0.vcp EXCEPT !.vc_type = "CONV_TO_LATIN1"],
        env |-> r0.env, ret |-> "OK", open |-> none]
  ELSE IF from_is_utf8 /\ "ENC_LATIN9" \in to_prop
  THEN [vcp |-> [r0.vcp EXCEPT !.vc_type = "CONV_TO_LATIN9"],
        env |-> r0.env, ret |-> "OK", open |-> none]
  ELSE IF o.fd # -1
  THEN [vcp |-> [r0.vcp EXCEPT !.vc_fd = o.fd, !.vc_type = "CONV_ICONV",
                               !.vc_factor = 4],
        env |-> o.env, ret |-> "OK",
        open |-> [called |-> o.called, tested |-> o.tested]]
  ELSE [vcp |-> [r0.vcp EXCEPT !.vc_fd = -1], env |-> o.env, ret |-> "FAIL",
        open |-> [called |-> o.called, tested |-> o.tested]]

\* A context as its owner initialises it: vc_type = CONV_NONE, the other
\* fields hold whatever the memory held (any handle value for vc_fd; for
\* vc_factor and vc_fail values that differ from those a reset stores).
NewContexts ==
  [vc_type : { "CONV_NONE" }, vc_factor : { 4 }, vc_fail : { TRUE },
   vc_fd : { -1 } \cup 1..MaxHandles]

\* Specification: calls of convert_setup_ext on the contexts in any order;
\* env holds the static iconv_working and the record of the iconv library
\* (handles opened so far, closes per handle, self-tests run); last
\* describes the latest call.
ConvInit ==
  /\ \E v \in [Contexts -> NewContexts] :
       conv = [phase |-> "init", vc |-> v,
               env |-> [iconv_working |-> "kUnknown", nopen |-> 0,
                        ntests |-> 0,
                        closes |-> [h \in 1..MaxHandles |-> 0]]]
  /\ codec = Idle /\ comp = Idle /\ rd = Idle /\ ic = Idle
  /\ cn = Idle /\ tab = Idle /\ cell = Idle /\ sc = Idle
  /\ bom = Idle /\ up = Idle /\ cmp = Idle

ConvCall(x, from, fu8, to, tu8, openOk, broken) ==
  LET r == convert_setup_ext(conv.vc[x], conv.env, from, fu8, to, tu8,
                             openOk, broken) IN
  /\ r.env.nopen <= MaxHandles
  /\ conv' = [phase |-> "called", vc |-> [conv.vc EXCEPT ![x] = r.vcp],
              env |-> r.env,
              last |-> [ctx |-> x, ret |-> r.ret,
                        release |-> (from = NullName /\ to = NullName),
                        held |-> IF conv.vc[x].vc_type = "CONV_ICONV"
                                 THEN conv.vc[x].vc_fd ELSE -1,
                        called |-> r.open.called, tested |-> r.open.tested,
                        working0 |-> conv.env.iconv_working,
                        iconv |-> (r.vcp.vc_type = "CONV_ICONV"
                                     \/ r.ret = "FAIL")]]
  /\ UNCHANGED <<codec, comp, rd, ic, cn, tab, cell, sc,
               bom, up, cmp>>

\* What the iconv library does when asked: iconv_open() fails, it succeeds,
\* or it succeeds with a converter that the dummy iconv() call shows broken.
IconvOutcomes == { "fail", "ok", "broken" }

\* convert_setup(vcp, from, to) or convert_setup_ext(...) with names
ConvEstablish ==
  \E x \in Contexts, nm \in NamePairs, outcome \in IconvOutcomes :
    ConvCall(x, nm[1], nm[2], nm[3], nm[4],
             outcome # "fail", outcome = "broken")

\* convert_setup(vcp, NULL, NULL)
ConvRelease ==
  \E x \in Contexts :
    ConvCall(x, NullName, TRUE, NullName, TRUE, FALSE, FALSE)

\* The owner of a context asks for failure on illegal characters:
\* vcp->vc_fail = true.
ConvSetFail ==
  /\ \E x \in Contexts :
       /\ conv.vc[x].vc_type # "CONV_NONE"
       /\ ~conv.vc[x].vc_fail
       /\ conv' = [conv EXCEPT !.vc[x].vc_fail = TRUE]
  /\ UNCHANGED <<codec, comp, rd, ic, cn, tab, cell, sc,
               bom, up, cmp>>

ConvNext == ConvEstablish \/ ConvRelease \/ ConvSetFail

SpecConv == ConvInit /\ [][ConvNext]_vars

\* The contexts that hold the handle h.
Holders(h) ==
  { x \in Contexts : conv.vc[x].vc_type = "CONV_ICONV"
                     /\ conv.vc[x].vc_fd = h }

\* What an establish call leaves that a later user of the context sees.
Outcome(r) ==
  [vc_type |-> r.vcp.vc_type, vc_factor |-> r.vcp.vc_factor,
   vc_fail |-> r.vcp.vc_fail, ret |-> r.ret, env |-> r.env,
   vc_fd |-> IF r.vcp.vc_type = "CONV_ICONV" THEN r.vcp.vc_fd ELSE -1]

\* C9: over any sequence of establish and release calls on contexts
\* initialised to CONV_NONE, no converter handle is closed twice, a handle
\* that was opened is either held by exactly one context or was closed once,
\* the handle a context held is closed by the next convert_setup call on
\* it, and establishing after a release gives what establishing on a new
\* context gives.
C9_HandleLifecycle ==
  conv.phase \in { "init", "called" } =>
    /\ \A h \in 1..MaxHandles :
         /\ conv.env.closes[h] <= 1
         /\ h > conv.env.nopen =>
              (conv.env.closes[h] = 0 /\ Holders(h) = {})
         /\ h <= conv.env.nopen =>
              Cardinality(Holders(h)) = 1 - conv.env.closes[h]
    /\ (conv.phase = "called" /\ conv.last.held # -1) =>
         conv.env.closes[conv.last.held] = 1
    /\ (conv.phase = "called" /\ conv.last.release) =>
         \A nm \in NamePairs, outcome \in IconvOutcomes, new \in NewContexts :
           Outcome(convert_setup_ext(conv.vc[conv.last.ctx], conv.env,
                                     nm[1], nm[2], nm[3], nm[4],
                                     outcome # "fail", outcome = "broken"))
           = Outcome(convert_setup_ext(new, conv.env,
                                       nm[1], nm[2], nm[3], nm[4],
                                       outcome # "fail", outcome = "broken"))

\* A context that held handle 1 was established again: handle 1 was closed
\* once and the context now holds handle 2.
C9_Witness ==
  /\ conv.phase = "called" /\ conv.last.held = 1
  /\ conv.env.closes[1] = 1 /\ conv.env.closes[2] = 0
  /\ conv.vc[conv.last.ctx].vc_type = "CONV_ICONV"
  /\ conv.vc[conv.last.ctx].vc_fd = 2

\* C10: once the self-test of my_iconv_open has found the converter broken
\* the status stays Broken; a later my_iconv_open fails without calling
\* iconv_open(); the handle opened for the failed test is closed and no
\* context holds one; the self-test runs only while the status is Unknown.
C10_BrokenIsPermanent ==
  /\ [](conv.phase = "called" =>
          /\ conv.last.working0 = "kBroken" =>
               /\ ~conv.last.called
               /\ conv.last.iconv => conv.last.ret = "FAIL"
          /\ conv.last.tested => conv.last.working0 = "kUnknown"
          /\ conv.env.ntests <= 1
          /\ conv.env.iconv_working = "kBroken" =>
               /\ conv.env.nopen = 1 /\ conv.env.closes[1] = 1
               /\ \A x \in Contexts : conv.vc[x].vc_type # "CONV_ICONV")
  /\ [][conv.env.iconv_working = "kBroken"
          => conv'.env.iconv_working = "kBroken"]_vars

\* With the status Broken, a conversion that needs iconv was asked for and
\* failed without iconv_open() being called.
C10_Witness ==
  /\ conv.phase = "called" /\ conv.last.working0 = "kBroken"
  /\ conv.last.iconv /\ conv.last.ret = "FAIL" /\ ~conv.last.called
  /\ conv.env.iconv_working = "kBroken" /\ conv.env.closes[1] = 1

-----------------------------------------------------------------------------
(* Display cells and the length of a character with its composing chars *)

\* The nonprint[] table of utf_printable.
nonprint ==
  << <<1807, 1807>>, <<6155, 6158>>, <<8203, 8207>>, <<8234, 8238>>,
     <<8298, 8303>>, <<55296, 57343>>, <<65279, 65279>>, <<65529, 65531>>,
     <<65534, 65535>> >>

\* utf_printable, for characters of 0x100 and above.
utf_printable(c) == ~intable(nonprint, c)

\* Intervals of the generated table of double-width characters.
doublewidth ==
  << <<4352, 4447>>, <<11904, 12350>>, <<12353, 13311>>, <<13312, 19903>>,
     <<19968, 42191>>, <<44032, 55203>>, <<63744, 64255>>,
     <<65281, 65376>>, <<65504, 65510>> >>

\* Intervals of the generated table of emoji shown double-width.
emoji_width == << <<127744, 128591>>, <<128640, 128767>> >>

\* Intervals of the generated table of ambiguous-width characters.
ambiguous ==
  << <<161, 161>>, <<164, 164>>, <<167, 168>>, <<170, 170>>, <<173, 174>>,
     <<176, 180>>, <<913, 929>>, <<8208, 8208>>, <<8211, 8214>> >>

\* vim_isprintc for c < 0x100: the printable characters are 0x20..0x7e and,
\* as 'isprint' says, 0xa0..0xff (the default) or 0x80..0xff.
vim_isprintc(c, opt) ==
  \/ c >= 32 /\ c <= 126
  \/ c >= (IF opt.p_isp = "128-255" THEN 128 ELSE 160)

\* char2cells for c < 0x80: two cells ("^X") for a control character.
char2cells(c) == IF c < 32 \/ c = 127 THEN 2 ELSE 1

\* The options the cell width depends on: 'emoji', 'ambiwidth' and
\* 'isprint'.
Options ==
  [p_emoji : BOOLEAN, p_ambw : { "single", "double" },
   p_isp : { "161-255", "128-255" }]

DefaultOptions == [p_emoji |-> TRUE, p_ambw |-> "single", p_isp |-> "161-255"]

\* utf_char2cells that shows an unprintable character below 0x100 in 6
\* cells.
utf_char2cells_hex6(c, opt) ==
  IF c >= 256 /\ ~utf_printable(c) THEN 6
  ELSE IF c >= 256 /\ intable(doublewidth, c) THEN 2
  ELSE IF c >= 256 /\ opt.p_emoji /\ intable(emoji_width, c) THEN 2
  ELSE IF c < 256 /\ c >= 128 /\ ~vim_isprintc(c, opt) THEN 6
  ELSE IF c >= 128 /\ opt.p_ambw = "double" /\ intable(ambiguous, c) THEN 2
  ELSE 1

\* utf_char2cells that takes every character from 0x80 for double-width
\* when 'ambiwidth' is "double".
utf_char2cells_ambw_all(c, opt) ==
  IF c >= 256 /\ ~utf_printable(c) THEN 6
  ELSE IF c >= 256 /\ intable(doublewidth, c) THEN 2
  ELSE IF c >= 256 /\ opt.p_emoji /\ intable(emoji_width, c) THEN 2
  ELSE IF c < 256 /\ c >= 128 /\ ~vim_isprintc(c, opt) THEN 4
  ELSE IF c >= 128 /\ opt.p_ambw = "double" THEN 2
  ELSE 1

\* utf_char2cells, built without USE_WCHAR_FUNCTIONS.
utf_char2cells(c, opt) ==
  IF c >= 256 /\ ~utf_printable(c) THEN 6
  ELSE IF c >= 256 /\ intable(doublewidth, c) THEN 2
  ELSE IF c >= 256 /\ opt.p_emoji /\ intable(emoji_width, c) THEN 2
  ELSE IF c < 256 /\ c >= 128 /\ ~vim_isprintc(c, opt) THEN 4
  ELSE IF c >= 128 /\ opt.p_ambw = "double" /\ intable(ambiguous, c) THEN 2
  ELSE 1

\* utf_ptr2cells
utf_ptr2cells(p, opt) ==
  LET c == utf_ptr2char(p) IN
  IF B(p, 0) >= 128 THEN
    IF utf_ptr2len(p) = 1 \/ c = NUL THEN 4
    ELSE IF c < 128 THEN char2cells(c)
    ELSE utf_char2cells(c, opt)
  ELSE 1

\* utf_ptr2cells_len(p, size): the cells, and the highest index of p that is
\* read (-1 when p is not read).
utf_ptr2cells_len(p, size, opt) ==
  LET c == utf_ptr2char(p) IN
  IF size > 0 /\ B(p, 0) >= 128 THEN
    IF utf_ptr2len_len(p, size) < utf8len_tab(B(p, 0))
      THEN [cells |-> 1, reads |-> utf_ptr2len_len_reads(p, size)]
      ELSE [cells |-> IF utf_ptr2len(p) = 1 \/ c = NUL THEN 4
                      ELSE IF c < 128 THEN char2cells(c)
                      ELSE utf_char2cells(c, opt),
            reads |-> Max(utf_ptr2len_len_reads(p, size),
                          utf_ptr2char_reads(p))]
  ELSE [cells |-> 1, reads |-> IF size > 0 THEN 0 ELSE -1]

-----------------------------------------------------------------------------
(* iconv_string *)

\* Most characters or fragments in a source string.
MaxSrcTokens == 2

\* Largest result buffer the run may allocate.
MaxResultLen == 60

\* What the source strings are made of: 'a', the illegal byte 0xFF, U+00E9,
\* the double-width U+4E00, a lone lead byte, NUL.
SrcTokens ==
  { <<97>>, <<255>>, <<195, 169>>, <<228, 184, 128>>, <<195>>, <<NUL>> }

SrcStrings ==
  { a \o b : a \in SrcTokens,
             b \in IF MaxSrcTokens > 1 THEN SrcTokens \cup { <<>> }
                   ELSE { <<>> } }
  \cup { a \o b \o c : a \in SrcTokens, b \in SrcTokens,
                       c \in IF MaxSrcTokens > 2 THEN SrcTokens ELSE {} }

\* The values of errno that iconv_string tells apart.
IconvErrors == { "E2BIG", "EILSEQ", "EINVAL", "EBADF" }

\* Specification: one run of iconv_string(vcp, str, slen, unconvlenp,
\* resultlenp) with enc_utf8 set; str[slen] is followed by a NUL.  Offsets
\* from, to and done count from str and result.
IconvInit ==
  /\ \E str \in SrcStrings, fail \in BOOLEAN, unconv \in BOOLEAN :
       ic = [phase |-> "loop", str |-> str \o <<NUL>>, vc_fail |-> fail,
             unconvlenp |-> unconv, from |-> 0, fromlen |-> Len(str),
             len |-> 0, done |-> 0, to |-> 0, errno |-> "none",
             result |-> "none", unconvlen |-> -1,
             last |-> [kind |-> "none"]]
  /\ codec = Idle /\ comp = Idle /\ rd = Idle /\ conv = Idle
  /\ cn = Idle /\ tab = Idle /\ cell = Idle /\ sc = Idle
  /\ bom = Idle /\ up = Idle /\ cmp = Idle

\* The buffer size after the top of the loop: grown on the first pass and
\* after E2BIG.
IconvLen ==
  IF ic.len = 0 \/ ic.errno = "E2BIG"
  THEN ic.len + ic.fromlen * 2 + 40 ELSE ic.len

\* tolen = len - done - 2, a size_t: below zero it wraps around to a value
\* near SIZE_MAX.
IconvTolen == IconvLen - ic.done - 2

\* The numbers of bytes the converter may write when it consumes j bytes
\* and is given tolen bytes of room: one for each byte consumed, or all the
\* room it was given (it cannot tell the room when tolen wrapped around).
IconvWrites(j, tolen) ==
  IF tolen < 0 THEN { j } ELSE { w \in { j, tolen } : w <= tolen }

\* One call iconv(vc_fd, &from, &fromlen, &to, &tolen) of the library: it
\* consumes j bytes, writes w bytes and succeeds (e = "none", everything
\* consumed) or fails with errno e.
IconvCall(j, w, e) ==
  /\ ic.phase = "loop"
  /\ IconvLen <= MaxResultLen /\ ic.done <= MaxResultLen
  /\ j \in 0..ic.fromlen
  /\ w \in IconvWrites(j, IconvTolen)
  /\ e = "none" <=> j = ic.fromlen

\* The state after the call, before iconv_string looks at the result.
IconvAfter(j, w, e) ==
  [ic EXCEPT !.len = IconvLen, !.from = @ + j, !.fromlen = @ - j,
             !.to = ic.done + w, !.errno = e, !.result = "allocated"]

\* iconv() succeeded: "Finished, append a NUL."
IconvFinished ==
  /\ \E j \in 0..ic.fromlen, w \in 0..MaxResultLen :
       /\ IconvCall(j, w, "none")
       /\ ic' = [IconvAfter(j, w, "none") EXCEPT
                   !.phase = "done", !.last = [kind |-> "finished"]]
  /\ UNCHANGED <<codec, comp, rd, conv, cn, tab, cell, sc,
               bom, up, cmp>>

\* "Handle an incomplete sequence at the end."
IconvIncomplete ==
  /\ ~ic.vc_fail /\ ic.unconvlenp
  /\ \E j \in 0..ic.fromlen, w \in 0..MaxResultLen :
       /\ IconvCall(j, w, "EINVAL")
       /\ ic' = [IconvAfter(j, w, "EINVAL") EXCEPT
                   !.phase = "done", !.unconvlen = ic.fromlen - j,
                   !.last = [kind |-> "incomplete"]]
  /\ UNCHANGED <<codec, comp, rd, conv, cn, tab, cell, sc,
               bom, up, cmp>>

\* "Can't convert: insert a '?' and skip a character."
IconvSkip ==
  /\ ~ic.vc_fail
  /\ \E j \in 0..ic.fromlen, w \in 0..MaxResultLen,
        e \in { "EILSEQ", "EINVAL" } :
       /\ IconvCall(j, w, e)
       /\ ~(ic.unconvlenp /\ e = "EINVAL")
       /\ LET a == IconvAfter(j, w, e)
              p == Adv(a.str, a.from)
              m == IF utf_ptr2cells(p, DefaultOptions) > 1 THEN 2 ELSE 1
              l == utfc_ptr2len_len(p, a.fromlen) IN
          ic' = [a EXCEPT !.to = @ + m, !.done = a.to + m,
                          !.from = @ + l, !.fromlen = @ - l,
                          !.last = [kind |-> "skip", byte |-> B(p, 0),
                                    marks |-> m, l |-> l]]
  /\ UNCHANGED <<codec, comp, rd, conv, cn, tab, cell, sc,
               bom, up, cmp>>

\* "conversion failed": the result is freed and NULL is returned.
IconvFailed ==
  /\ \E j \in 0..ic.fromlen, w \in 0..MaxResultLen,
        e \in IconvErrors \ { "E2BIG" } :
       /\ IconvCall(j, w, e)
       /\ ic.vc_fail \/ e = "EBADF"
       /\ ic' = [IconvAfter(j, w, e) EXCEPT
                   !.phase = "done", !.result = "NULL",
                   !.last = [kind |-> "failed",
                             byte |-> B(Adv(ic.str, ic.from + j), 0)]]
  /\ UNCHANGED <<codec, comp, rd, conv, cn, tab, cell, sc,
               bom, up, cmp>>

\* "Not enough room": go round the loop to allocate a larger buffer.
IconvGrow ==
  /\ \E j \in 0..ic.fromlen, w \in 0..MaxResultLen :
       /\ IconvCall(j, w, "E2BIG")
       /\ ic' = [IconvAfter(j, w, "E2BIG") EXCEPT
                   !.done = ic.done + w, !.last = [kind |-> "grow"]]
  /\ UNCHANGED <<codec, comp, rd, conv, cn, tab, cell, sc,
               bom, up, cmp>>

IconvNext ==
  IconvFinished \/ IconvIncomplete \/ IconvSkip \/ IconvFailed \/ IconvGrow

SpecIconv == IconvInit /\ [][IconvNext]_vars

\* C8: when the converter reports an illegal sequence at the illegal byte
\* 0xFF, iconv_string with the fail flag clear appends exactly one '?' and
\* advances the source by exactly 1 byte; with the fail flag set it returns
\* NULL.
C8_IllegalByteOneMark ==
  /\ (ic.phase = "loop" /\ ic.last.kind = "skip" /\ ic.last.byte = 255)
       => (ic.last.marks = 1 /\ ic.last.l = 1)
  /\ (ic.phase = "done" /\ ic.vc_fail /\ ic.last.kind = "failed")
       => ic.result = "NULL"

-----------------------------------------------------------------------------
(* Encoding names: enc_canonize *)

enc_canon_table ==
  << "latin1", "iso-8859-2", "iso-8859-3", "iso-8859-4", "iso-8859-5",
     "iso-8859-6", "iso-8859-7", "iso-8859-8", "iso-8859-9", "iso-8859-10",
     "iso-8859-11", "iso-8859-13", "iso-8859-14", "iso-8859-15", "koi8-r",
     "koi8-u", "utf-8", "ucs-2", "ucs-2le", "utf-16", "utf-16le", "ucs-4",
     "ucs-4le", "debug", "euc-jp", "sjis", "euc-kr", "euc-cn", "euc-tw",
     "big5", "cp437", "cp737", "cp775", "cp850", "cp852", "cp855", "cp857",
     "cp860", "cp861", "cp862", "cp863", "cp865", "cp866", "cp869", "cp874",
     "cp932", "cp936", "cp949", "cp950", "cp1250", "cp1251", "cp1253",
     "cp1254", "cp1255", "cp1256", "cp1257", "cp1258", "macroman",
     "hp-roman8" >>

enc_alias_table ==
  << <<"ansi", 0>>, <<"iso-8859-1", 0>>, <<"latin2", 1>>, <<"latin3", 2>>,
     <<"latin4", 3>>, <<"cyrillic", 4>>, <<"arabic", 5>>, <<"greek", 6>>,
     <<"hebrew", 7>>, <<"latin5", 8>>, <<"turkish", 8>>, <<"latin6", 9>>,
     <<"nordic", 9>>, <<"thai", 10>>, <<"latin7", 11>>, <<"latin8", 12>>,
     <<"latin9", 13>>, <<"utf8", 16>>, <<"unicode", 17>>, <<"ucs2", 17>>,
     <<"ucs2be", 17>>, <<"ucs-2be", 17>>, <<"ucs2le", 18>>, <<"utf16", 19>>,
     <<"utf16be", 19>>, <<"utf-16be", 19>>, <<"utf16le", 20>>,
     <<"ucs4", 21>>, <<"ucs4be", 21>>, <<"ucs-4be", 21>>, <<"ucs4le", 22>>,
     <<"utf32", 21>>, <<"utf-32", 21>>, <<"utf32be", 21>>,
     <<"utf-32be", 21>>, <<"utf32le", 22>>, <<"utf-32le", 22>>,
     <<"932", 45>>, <<"949", 47>>, <<"936", 46>>, <<"gbk", 46>>,
     <<"950", 48>>, <<"eucjp", 24>>, <<"unix-jis", 24>>, <<"ujis", 24>>,
     <<"shift-jis", 25>>, <<"pck", 25>>, <<"euckr", 26>>, <<"5601", 26>>,
     <<"euccn", 27>>, <<"gb2312", 27>>, <<"euctw", 28>>, <<"japan", 24>>,
     <<"korea", 26>>, <<"prc", 27>>, <<"chinese", 27>>, <<"taiwan", 28>>,
     <<"cp950", 29>>, <<"950", 29>>, <<"mac", 57>>, <<"mac-roman", 57>> >>

\* STRNCMP(s, pre, STRLEN(pre)) == 0
STRNCMP(s, pre) == Len(s) >= Len(pre) /\ SubSeq(s, 1, Len(pre)) = pre

\* s + n, for n <= STRLEN(s)
StrAdv(s, n) == SubSeq(s, n + 1, Len(s))

\* TOLOWER_ASC, on a string of one character.
TOLOWER_ASC(ch) ==
  LET upper == "ABCDEFGHIJKLMNOPQRSTUVWXYZ"
      lower == "abcdefghijklmnopqrstuvwxyz"
      hit   == { i \in 1..26 : SubSeq(upper, i, i) = ch } IN
  IF hit = {} THEN ch
  ELSE LET i == CHOOSE j \in hit : TRUE IN SubSeq(lower, i, i)

\* The copy loop of enc_canonize: "Make it all lower case and replace '_'
\* with '-'."
RECURSIVE enc_lower(_)
enc_lower(s) ==
  IF s = "" THEN ""
  ELSE (IF SubSeq(s, 1, 1) = "_" THEN "-" ELSE TOLOWER_ASC(SubSeq(s, 1, 1)))
       \o enc_lower(StrAdv(s, 1))

\* enc_skip: the name after the Vim specific head.
enc_skip(p) ==
  IF STRNCMP(p, "2byte-") THEN StrAdv(p, 6)
  ELSE IF STRNCMP(p, "8bit-") THEN StrAdv(p, 5)
  ELSE p

\* enc_canon_search: index in enc_canon_table (from 0), or -1.
enc_canon_search(name) ==
  LET hit == { i \in 1..Len(enc_canon_table) : enc_canon_table[i] = name } IN
  IF hit = {} THEN -1
  ELSE (CHOOSE i \in hit : \A j \in hit : i <= j) - 1

\* enc_alias_search: the canon index of the first alias equal to name, or -1.
enc_alias_search(name) ==
  LET hit == { i \in 1..Len(enc_alias_table) :
                 enc_alias_table[i][1] = name } IN
  IF hit = {} THEN -1
  ELSE enc_alias_table[CHOOSE i \in hit : \A j \in hit : i <= j][2]

\* enc_canonize(enc), fenc_default being the default encoding found by
\* set_init_1().  r is the allocated copy, p points into it behind the head
\* that enc_skip skips; the STRMOVE edits are done on p in place.
enc_canonize(enc, fenc_default) ==
  LET r    == enc_lower(enc)
      p0   == enc_skip(r)
      head == SubSeq(r, 1, Len(r) - Len(p0))
      p1   == IF STRNCMP(p0, "microsoft-cp") THEN StrAdv(p0, 10) ELSE p0
      p2   == IF STRNCMP(p1, "iso8859")
              THEN "iso-" \o StrAdv(p1, 3) ELSE p1
      p3   == IF STRNCMP(p2, "iso-8859")
                 /\ (Len(p2) = 8 \/ SubSeq(p2, 9, 9) # "-")
              THEN "iso-8859-" \o StrAdv(p2, 8) ELSE p2
      p    == IF STRNCMP(p3, "latin-")
              THEN "latin" \o StrAdv(p3, 6) ELSE p3 IN
  IF enc = "default" THEN fenc_default
  ELSE IF enc_canon_search(p) >= 0 THEN p
  ELSE IF enc_alias_search(p) >= 0
    THEN enc_canon_table[enc_alias_search(p) + 1]
  ELSE head \o p

\* Most pieces an encoding name is put together from.
MaxNameTokens == 3

\* The pieces: the heads enc_skip knows, the spellings enc_canonize
\* rewrites, separators, digits, upper case, and "default".
NameTokens ==
  { "8bit-", "2BYTE_", "microsoft-cp", "iso8859", "iso-8859", "latin",
    "LATIN_", "-", "1", "15", "1250", "utf", "8", "default" }

RECURSIVE NamesOf(_)
NamesOf(n) ==
  IF n = 0 THEN { "" }
  ELSE NamesOf(n - 1) \cup { a \o t : a \in NamesOf(n - 1), t \in NameTokens }

EncNames == NamesOf(MaxNameTokens)

\* The values set_init_1() may have left in fenc_default.
DefaultEncodings == { "latin1", "utf-8" }

\* Specification: a name is canonized, and the result canonized again.
CanonInit ==
  /\ \E enc \in EncNames, d \in DefaultEncodings :
       cn = [phase |-> "name", enc |-> enc, fenc_default |-> d]
  /\ codec = Idle /\ comp = Idle /\ rd = Idle /\ conv = Idle /\ ic = Idle
  /\ tab = Idle /\ cell = Idle /\ sc = Idle
  /\ bom = Idle /\ up = Idle /\ cmp = Idle

\* r = enc_canonize(enc)
CanonFirst ==
  /\ cn.phase = "name"
  /\ cn' = [phase |-> "once", enc |-> cn.enc,
            fenc_default |-> cn.fenc_default,
            first |-> enc_canonize(cn.enc, cn.fenc_default)]
  /\ UNCHANGED <<codec, comp, rd, conv, ic, tab, cell, sc,
               bom, up, cmp>>

\* r2 = enc_canonize(r)
CanonSecond ==
  /\ cn.phase = "once"
  /\ cn' = [phase |-> "twice", enc |-> cn.enc,
            fenc_default |-> cn.fenc_default, first |-> cn.first,
            second |-> enc_canonize(cn.first, cn.fenc_default)]
  /\ UNCHANGED <<codec, comp, rd, conv, ic, tab, cell, sc,
               bom, up, cmp>>

CanonNext == CanonFirst \/ CanonSecond

SpecCanon == CanonInit /\ [][CanonNext]_vars

\* C11: enc_canonize is idempotent: for every encoding name x,
\* enc_canonize(enc_canonize(x)) equals enc_canonize(x).
C11_CanonizeIdempotent ==
  cn.phase = "twice" => cn.second = cn.first

-----------------------------------------------------------------------------
(* The range tables defined in the source *)

\* The classes[] table of utf_class: <<first, last, class>>.
classes ==
  << <<894, 894, 1>>, <<903, 903, 1>>, <<1370, 1375, 1>>, <<1417, 1417, 1>>,
     <<1470, 1470, 1>>, <<1472, 1472, 1>>, <<1475, 1475, 1>>,
     <<1523, 1524, 1>>, <<1548, 1548, 1>>, <<1563, 1563, 1>>,
     <<1567, 1567, 1>>, <<1642, 1645, 1>>, <<1748, 1748, 1>>,
     <<1792, 1805, 1>>, <<2404, 2405, 1>>, <<2416, 2416, 1>>,
     <<3572, 3572, 1>>, <<3663, 3663, 1>>, <<3674, 3675, 1>>,
     <<3844, 3858, 1>>, <<3898, 3901, 1>>, <<3973, 3973, 1>>,
     <<4170, 4175, 1>>, <<4347, 4347, 1>>, <<4961, 4968, 1>>,
     <<5741, 5742, 1>>, <<5760, 5760, 0>>, <<5787, 5788, 1>>,
     <<5867, 5869, 1>>, <<5941, 5942, 1>>, <<6100, 6108, 1>>,
     <<6144, 6154, 1>>, <<8192, 8203, 0>>, <<8204, 8231, 1>>,
     <<8232, 8233, 0>>, <<8234, 8238, 1>>, <<8239, 8239, 0>>,
     <<8240, 8286, 1>>, <<8287, 8287, 0>>, <<8288, 10239, 1>>,
     <<8304, 8319, 8304>>, <<8320, 8340, 8320>>, <<8352, 10239, 1>>,
     <<10240, 10495, 10240>>, <<10496, 10648, 1>>, <<10712, 10715, 1>>,
     <<10748, 10749, 1>>, <<11776, 11903, 1>>, <<12288, 12288, 0>>,
     <<12289, 12320, 1>>, <<12336, 12336, 1>>, <<12349, 12349, 1>>,
     <<12352, 12447, 12352>>, <<12448, 12543, 12448>>,
     <<13056, 40959, 19968>>, <<44032, 55203, 44032>>,
     <<63744, 64255, 19968>>, <<64830, 64831, 1>>, <<65072, 65131, 1>>,
     <<65280, 65295, 1>>, <<65306, 65312, 1>>, <<65339, 65344, 1>>,
     <<65371, 65381, 1>>, <<131072, 173791, 19968>>,
     <<173824, 177983, 19968>>, <<177984, 178207, 19968>>,
     <<194560, 195103, 19968>> >>

\* The binary search of utf_class over classes[bot..top]: the class of the
\* interval it stops at, -1 when it finds none.
RECURSIVE utf_class_search(_, _, _)
utf_class_search(bot, top, c) ==
  LET mid == (bot + top) \div 2 IN
  IF top < bot THEN -1
  ELSE IF classes[mid + 1][2] < c THEN utf_class_search(mid + 1, top, c)
  ELSE IF classes[mid + 1][1] > c THEN utf_class_search(bot, mid - 1, c)
  ELSE classes[mid + 1][3]

\* Excerpt of the generated table emoji_all.
emoji_all == << <<8986, 8987>>, <<9193, 9203>>, <<127744, 128591>> >>

\* utf_class(c); vim_iswordc() under the default 'iskeyword'
\* (@,48-57,_,192-255).
utf_class(c) ==
  LET vim_iswordc(x) ==
        \/ (x >= 65 /\ x <= 90) \/ (x >= 97 /\ x <= 122)
        \/ (x >= 48 /\ x <= 57) \/ x = 95 \/ (x >= 192 /\ x <= 255)
      found == utf_class_search(0, Len(classes) - 1, c)
  IN IF c < 256
       THEN IF c = 32 \/ c = 9 \/ c = NUL \/ c = 160 THEN 0
            ELSE IF vim_iswordc(c) THEN 2
            ELSE 1
     ELSE IF found # -1 THEN found
     ELSE IF intable(emoji_all, c) THEN 3
     ELSE 2

\* The static interval tables, by name.
RangeTables == [nonprint |-> nonprint, classes |-> classes]

\* The codepoints at and next to the ends of the intervals of a table.
TablePoints(t) ==
  UNION { { t[i][1] - 1, t[i][1], t[i][2], t[i][2] + 1 } : i \in 1..Len(t) }

\* Specification: the tables are never written; an entry is inspected
\* together with the one before it, or a codepoint is looked up.
TableInit ==
  /\ tab = [phase |-> "start"]
  /\ codec = Idle /\ comp = Idle /\ rd = Idle /\ conv = Idle /\ ic = Idle
  /\ cn = Idle /\ cell = Idle /\ sc = Idle
  /\ bom = Idle /\ up = Idle /\ cmp = Idle

\* table[i] (i counted from 0) and its predecessor
TableEntry ==
  /\ \E name \in DOMAIN RangeTables :
       \E i \in 0..(Len(RangeTables[name]) - 1) :
         tab' = [phase |-> "entry", table |-> name, i |-> i,
                 first |-> RangeTables[name][i + 1][1],
                 last |-> RangeTables[name][i + 1][2],
                 prev_last |-> IF i = 0 THEN -1
                               ELSE RangeTables[name][i][2]]
  /\ UNCHANGED <<codec, comp, rd, conv, ic, cn, cell, sc,
               bom, up, cmp>>

\* utf_printable(c), or the table search of utf_class(c), for c >= 0x100
TableLookup ==
  /\ \E name \in DOMAIN RangeTables :
       \E c \in TablePoints(RangeTables[name]) :
         /\ c >= 256
         /\ tab' = [phase |-> "lookup", table |-> name, c |-> c,
                    listed |-> { i \in 0..(Len(RangeTables[name]) - 1) :
                                   /\ RangeTables[name][i + 1][1] <= c
                                   /\ c <= RangeTables[name][i + 1][2] },
                    found |-> IF name = "nonprint" THEN ~utf_printable(c)
                              ELSE utf_class_search(0, Len(classes) - 1, c)
                                     # -1,
                    class |-> IF name = "nonprint" THEN -1
                              ELSE utf_class_search(0, Len(classes) - 1, c)]
  /\ UNCHANGED <<codec, comp, rd, conv, ic, cn, cell, sc,
               bom, up, cmp>>

\* utf_class(c)
TableClass ==
  /\ \E c \in TablePoints(classes) \cup TablePoints(emoji_all)
              \cup 8304..8340 \cup {NUL, 9, 32, 33, 65, 160, 255} :
       tab' = [phase |-> "class", c |-> c, class |-> utf_class(c),
               listed |-> { i \in 0..(Len(classes) - 1) :
                              classes[i + 1][1] <= c /\ c <= classes[i + 1][2] }]
  /\ UNCHANGED <<codec, comp, rd, conv, ic, cn, cell, sc,
               bom, up, cmp>>

TableNext == TableEntry \/ TableLookup \/ TableClass

SpecTables == TableInit /\ [][TableNext]_vars

\* C12: every range table defined in the source (nonprint of utf_printable,
\* classes of utf_class) is sorted ascending by first and non-overlapping:
\* each interval has first <= last and a first greater than the last of the
\* interval before it.
C12_TablesSortedDisjoint ==
  tab.phase = "entry" =>
    /\ tab.first <= tab.last
    /\ tab.i > 0 => tab.first > tab.prev_last

-----------------------------------------------------------------------------
(* Display cells of a codepoint *)

\* The codepoints measured: all below 0x100 and those at and next to the
\* ends of the intervals of the width tables.
CellPoints ==
  0..255 \cup TablePoints(nonprint) \cup TablePoints(doublewidth)
  \cup TablePoints(emoji_width) \cup TablePoints(ambiguous)

\* Specification: a codepoint is measured under some setting of the
\* options; then 'ambiwidth' or 'emoji' is set to its other value and the
\* codepoint is measured again.
CellInit ==
  /\ \E c \in CellPoints, opt \in Options :
       cell = [phase |-> "ready", c |-> c, opt |-> opt]
  /\ codec = Idle /\ comp = Idle /\ rd = Idle /\ conv = Idle /\ ic = Idle
  /\ cn = Idle /\ tab = Idle /\ sc = Idle
  /\ bom = Idle /\ up = Idle /\ cmp = Idle

\* n = utf_char2cells(c)
CellMeasure ==
  /\ cell.phase = "ready"
  /\ cell' = [phase |-> "measured", c |-> cell.c, opt |-> cell.opt,
              cells |-> utf_char2cells(cell.c, cell.opt)]
  /\ UNCHANGED <<codec, comp, rd, conv, ic, cn, tab, sc,
               bom, up, cmp>>

\* :set ambiwidth=..., then utf_char2cells(c) again
CellSetAmbw ==
  /\ cell.phase = "measured"
  /\ LET opt == [cell.opt EXCEPT
                   !.p_ambw = IF @ = "single" THEN "double" ELSE "single"] IN
     cell' = [phase |-> "again", c |-> cell.c, opt |-> opt,
              set |-> "ambiwidth", cells0 |-> cell.cells,
              cells |-> utf_char2cells(cell.c, opt)]
  /\ UNCHANGED <<codec, comp, rd, conv, ic, cn, tab, sc,
               bom, up, cmp>>

\* :set emoji or :set noemoji, then utf_char2cells(c) again
CellSetEmoji ==
  /\ cell.phase = "measured"
  /\ LET opt == [cell.opt EXCEPT !.p_emoji = ~@] IN
     cell' = [phase |-> "again", c |-> cell.c, opt |-> opt,
              set |-> "emoji", cells0 |-> cell.cells,
              cells |-> utf_char2cells(cell.c, opt)]
  /\ UNCHANGED <<codec, comp, rd, conv, ic, cn, tab, sc,
               bom, up, cmp>>

\* n = utf_ptr2cells_len(p, size): p holds the bytes of c, or these bytes
\* with one byte after the first replaced by 'A', and then what follows
\* them in the buffer.
CellMeasureLen ==
  /\ cell.phase = "ready"
  /\ \E g \in Garbage, k \in 0..3, size \in 0..5 :
       LET enc == utf_char2bytes(cell.c)
           p == [i \in 1..Len(enc) |-> IF k > 0 /\ i = k + 1 THEN 65
                                       ELSE enc[i]] \o Fill(g, Slack)
           r == utf_ptr2cells_len(p, size, cell.opt)
       IN /\ k < Len(enc)
          /\ size <= Len(p)
          /\ cell' = [phase |-> "measured_len", c |-> cell.c,
                      opt |-> cell.opt, p |-> p, size |-> size,
                      cells |-> r.cells, reads |-> r.reads]
  /\ UNCHANGED <<codec, comp, rd, conv, ic, cn, tab, sc,
               bom, up, cmp>>

CellNext == CellMeasure \/ CellSetAmbw \/ CellSetEmoji \/ CellMeasureLen

SpecCells == CellInit /\ [][CellNext]_vars

\* C16 as stated: for every codepoint c < 0x80 that fails the printability
\* test, utf_char2cells returns 4.
C16_AsciiUnprintableIsFour ==
  (cell.phase = "measured" /\ cell.c < 128
     /\ ~vim_isprintc(cell.c, cell.opt)) => cell.cells = 4

\* C16 amended: for every codepoint c with 0x80 <= c < 0x100 that fails the
\* printability test utf_char2cells returns 4; for every c < 0x80 it
\* returns 1, printable or not.
C16_Latin1UnprintableIsFour ==
  cell.phase = "measured" =>
    /\ (cell.c >= 128 /\ cell.c < 256 /\ ~vim_isprintc(cell.c, cell.opt))
         => cell.cells = 4
    /\ cell.c < 128 => cell.cells = 1

\* 0x80 was measured with the default 'isprint': 4 cells.
C16_Witness ==
  /\ cell.phase = "measured" /\ cell.c = 128 /\ cell.opt.p_isp = "161-255"
  /\ cell.cells = 4

\* C17: with 'emoji' and the printability fixed, utf_char2cells(c) with
\* 'ambiwidth' set to double differs from utf_char2cells(c) with it set to
\* single only if c is in the ambiguous-width table.
C17_AmbwLocality ==
  (cell.phase = "again" /\ cell.set = "ambiwidth"
     /\ cell.cells # cell.cells0) => intable(ambiguous, cell.c)

\* U+00A1, in the ambiguous table, took 1 cell with ambiwidth=single and
\* takes 2 after ambiwidth was set to double.
C17_Witness ==
  /\ cell.phase = "again" /\ cell.set = "ambiwidth" /\ cell.c = 161
  /\ cell.opt.p_ambw = "double" /\ cell.cells0 = 1 /\ cell.cells = 2

-----------------------------------------------------------------------------
(* string_convert_ext: the conversions done without iconv *)

\* The switch of the CONV_9_TO_UTF8 case.
latin9_to_ucs(c) ==
  CASE c = 164 -> 8364 [] c = 166 -> 352 [] c = 168 -> 353
    [] c = 180 -> 381 [] c = 184 -> 382 [] c = 188 -> 338
    [] c = 189 -> 339 [] c = 190 -> 376 [] OTHER -> c

\* The switch of the CONV_TO_LATIN9 case; 0x100 stands for "not in latin9".
\* The switch of the CONV_TO_LATIN9 case with 0x0153 given the byte of
\* 0x0152.
ucs_to_latin9_oe(c) ==
  CASE c = 8364 -> 164 [] c = 352 -> 166 [] c = 353 -> 168
    [] c = 381 -> 180 [] c = 382 -> 184 [] c = 338 -> 188
    [] c = 339 -> 188 [] c = 376 -> 190
    [] c \in { 164, 166, 168, 180, 184, 188, 189, 190 } -> 256
    [] OTHER -> c

ucs_to_latin9(c) ==
  CASE c = 8364 -> 164 [] c = 352 -> 166 [] c = 353 -> 168
    [] c = 381 -> 180 [] c = 382 -> 184 [] c = 338 -> 188
    [] c = 339 -> 189 [] c = 376 -> 190
    [] c \in { 164, 166, 168, 180, 184, 188, 189, 190 } -> 256
    [] OTHER -> c

\* The loop of the CONV_TO_UTF8 case with the lead byte built from c >> 5.
RECURSIVE conv_to_utf8_shift5(_, _, _)
conv_to_utf8_shift5(ptr, len, i) ==
  LET c == B(ptr, i) IN
  IF i >= len THEN <<>>
  ELSE (IF c < 128 THEN << c >>
        ELSE << (192 + (c \div 32)) % 256, 128 + (c % 64) >>)
       \o conv_to_utf8_shift5(ptr, len, i + 1)

\* The loop of the CONV_TO_UTF8 case: the bytes written from ptr[i] on.
RECURSIVE conv_to_utf8(_, _, _)
conv_to_utf8(ptr, len, i) ==
  LET c == B(ptr, i) IN
  IF i >= len THEN <<>>
  ELSE (IF c < 128 THEN << c >>
        ELSE << (192 + (c \div 64)) % 256, 128 + (c % 64) >>)
       \o conv_to_utf8(ptr, len, i + 1)

\* The loop of the CONV_9_TO_UTF8 case.
RECURSIVE conv_9_to_utf8(_, _, _)
conv_9_to_utf8(ptr, len, i) ==
  IF i >= len THEN <<>>
  ELSE utf_char2bytes(latin9_to_ucs(B(ptr, i)))
       \o conv_9_to_utf8(ptr, len, i + 1)

\* The loop of the CONV_TO_LATIN1 and CONV_TO_LATIN9 cases, at ptr[i] with
\* the bytes d written so far: failed tells that NULL is returned (after
\* xfree(retval)), retval is the result, written the number of bytes stored
\* in the buffer before returning,
\* unconvlen the value stored in *unconvlenp (-1 when it is not written).
RECURSIVE conv_to_latin(_, _, _, _, _, _, _)
conv_to_latin(vcp, opt, ptr, len, unconv, i, d) ==
  LET p   == Adv(ptr, i)
      l   == utf_ptr2len_len(p, len - i)
      l_w == utf8len_tab_zero(B(p, 0))
      c   == IF vcp.vc_type = "CONV_TO_LATIN9"
             THEN ucs_to_latin9(utf_ptr2char(p)) ELSE utf_ptr2char(p) IN
  IF i >= len THEN [failed |-> FALSE, retval |-> d, written |-> Len(d) + 1,
        unconvlen |-> -1]
  ELSE IF l = 0
    THEN conv_to_latin(vcp, opt, ptr, len, unconv, i + 1, d \o << NUL >>)
  ELSE IF l = 1 THEN
    IF l_w = 0
    THEN [failed |-> TRUE, retval |-> <<>>, written |-> Len(d),
          unconvlen |-> -1]
    ELSE IF unconv /\ l_w > len - i
    THEN [failed |-> FALSE, retval |-> d, written |-> Len(d) + 1,
          unconvlen |-> len - i]
    ELSE conv_to_latin(vcp, opt, ptr, len, unconv, i + 1,
                       d \o << B(p, 0) >>)
  ELSE IF utf_iscomposing(c)
    THEN conv_to_latin(vcp, opt, ptr, len, unconv, i + l, d)
  ELSE IF c < 256
    THEN conv_to_latin(vcp, opt, ptr, len, unconv, i + l, d \o << c >>)
  ELSE IF vcp.vc_fail
    THEN [failed |-> TRUE, retval |-> <<>>, written |-> Len(d),
          unconvlen |-> -1]
  ELSE conv_to_latin(
         vcp, opt, ptr, len, unconv, i + l,
         d \o << 191 >>
           \o (IF utf_char2cells(c, opt) > 1 THEN << 63 >> ELSE <<>>))

\* The highest index of ptr that the loop of the CONV_TO_LATIN1 and
\* CONV_TO_LATIN9 case reads from i on, hi being the highest read before.
RECURSIVE conv_to_latin_reads(_, _, _, _, _, _)
conv_to_latin_reads(vcp, ptr, len, unconv, i, hi) ==
  LET p   == Adv(ptr, i)
      l   == utf_ptr2len_len(p, len - i)
      l_w == utf8len_tab_zero(B(p, 0))
      c   == IF vcp.vc_type = "CONV_TO_LATIN9"
             THEN ucs_to_latin9(utf_ptr2char(p)) ELSE utf_ptr2char(p)
      h1  == Max(hi, i + utf_ptr2len_len_reads(p, len - i))
      h2  == Max(h1, i + utf_ptr2char_reads(p)) IN
  IF i >= len THEN hi
  ELSE IF l = 0 THEN conv_to_latin_reads(vcp, ptr, len, unconv, i + 1, h1)
  ELSE IF l = 1 THEN
    IF l_w = 0 \/ (unconv /\ l_w > len - i) THEN h1
    ELSE conv_to_latin_reads(vcp, ptr, len, unconv, i + 1, h1)
  ELSE IF ~utf_iscomposing(c) /\ c >= 256 /\ vcp.vc_fail THEN h2
  ELSE conv_to_latin_reads(vcp, ptr, len, unconv, i + l, h2)

\* string_convert_ext(vcp, ptr, &len, unconvlenp) for a context that does
\* not use iconv; unconv tells whether unconvlenp is not NULL, alloc is the
\* size given to xmalloc, reads the highest index of ptr that is read.
string_convert_ext(vcp, opt, ptr, len, unconv) ==
  LET out(d, n) == [failed |-> FALSE, retval |-> d, written |-> Len(d) + 1,
                    unconvlen |-> -1, alloc |-> n, reads |-> len - 1]
      lat == conv_to_latin(vcp, opt, ptr, len, unconv, 0, <<>>) IN
  IF len = 0 THEN out(<<>>, 1)
  ELSE IF vcp.vc_type = "CONV_TO_UTF8"
    THEN out(conv_to_utf8(ptr, len, 0), len * 2 + 1)
  ELSE IF vcp.vc_type = "CONV_9_TO_UTF8"
    THEN out(conv_9_to_utf8(ptr, len, 0), len * 3 + 1)
  ELSE IF vcp.vc_type \in { "CONV_TO_LATIN1", "CONV_TO_LATIN9" }
    THEN [failed |-> lat.failed, retval |-> lat.retval,
          written |-> lat.written, unconvlen |-> lat.unconvlen,
          alloc |-> len + 1,
          reads |-> conv_to_latin_reads(vcp, ptr, len, unconv, 0, -1)]
  ELSE [failed |-> TRUE, retval |-> <<>>, written |-> 0, unconvlen |-> -1,
        alloc |-> 0, reads |-> -1]

\* Most characters or fragments in a text to convert.
MaxStrTokens == 2

\* What the texts are made of: 'a', NUL, the Latin bytes 0x80, 0xA4, 0xE9
\* and 0xFF (illegal as UTF-8 where they stand alone), U+00E9, U+00A4,
\* U+0153, U+0300 (composing), U+20AC, the double-width U+4E00, and the
\* first one and two bytes of U+4E00.
StrTokens ==
  { <<97>>, <<NUL>>, <<128>>, <<164>>, <<233>>, <<255>>, <<195, 169>>,
    <<194, 164>>, <<197, 147>>, <<204, 128>>, <<226, 130, 172>>,
    <<228, 184, 128>>, <<228>>, <<228, 184>> }

RECURSIVE TextsOf(_)
TextsOf(n) ==
  IF n = 0 THEN { <<>> }
  ELSE TextsOf(n - 1) \cup { a \o t : a \in TextsOf(n - 1), t \in StrTokens }

\* The bytes that follow ptr[len] in the caller's memory: the terminating
\* NUL of a string, or what comes next in a buffer converted piece by piece.
StrTails == { <<NUL, NUL>>, <<184, 128>>, <<128, 65>> }

\* The name pairs that select a conversion done without iconv, and one
\* that selects none.
StrPairs ==
  { nm \in NamePairs :
      <<nm[1], nm[3]>> \in { <<"latin1", "utf-8">>, <<"iso-8859-15", "utf-8">>,
                             <<"utf-8", "latin1">>,
                             <<"utf-8", "iso-8859-15">>,
                             <<"latin1", "latin1">> } }

\* Specification: a new context is established with convert_setup_ext, its
\* owner may set vc_fail, and a text ptr[len] is converted with
\* string_convert_ext.
StrInit ==
  /\ \E v \in NewContexts :
       sc = [phase |-> "new", vc |-> v,
             env |-> [iconv_working |-> "kUnknown", nopen |-> 0,
                      ntests |-> 0, closes |-> [h \in 1..MaxHandles |-> 0]]]
  /\ codec = Idle /\ comp = Idle /\ rd = Idle /\ conv = Idle /\ ic = Idle
  /\ cn = Idle /\ tab = Idle /\ cell = Idle
  /\ bom = Idle /\ up = Idle /\ cmp = Idle

\* convert_setup_ext(&vc, from, true, to, true)
StrSetup ==
  /\ sc.phase = "new"
  /\ \E nm \in StrPairs :
       LET r == convert_setup_ext(sc.vc, sc.env, nm[1], nm[2], nm[3], nm[4],
                                  FALSE, FALSE) IN
       sc' = [phase |-> "established", vc |-> r.vcp, env |-> r.env,
              from |-> nm[1], to |-> nm[3], ret |-> r.ret,
              fd0 |-> sc.vc.vc_fd, opened |-> r.open.called]
  /\ UNCHANGED <<codec, comp, rd, conv, ic, cn, tab, cell,
               bom, up, cmp>>

\* vc.vc_fail = true
StrSetFail ==
  /\ sc.phase = "established" /\ ~sc.vc.vc_fail
  /\ sc' = [sc EXCEPT !.vc.vc_fail = TRUE]
  /\ UNCHANGED <<codec, comp, rd, conv, ic, cn, tab, cell,
               bom, up, cmp>>

\* string_convert_ext(&vc, ptr, &len, unconvlenp), or string_convert when
\* unconvlenp is NULL
StrConvert ==
  /\ sc.phase = "established"
  /\ \E text \in TextsOf(MaxStrTokens) \cup { <<b>> : b \in Byte },
        tail \in StrTails,
        unconv \in BOOLEAN, ambw \in { "single", "double" } :
       LET opt == [DefaultOptions EXCEPT !.p_ambw = ambw] IN
       sc' = [phase |-> "converted", vc |-> sc.vc, env |-> sc.env,
              from |-> sc.from, to |-> sc.to, ret |-> sc.ret,
              fd0 |-> sc.fd0, opened |-> sc.opened,
              ptr |-> text \o tail, len |-> Len(text),
              unconvlenp |-> unconv, opt |-> opt,
              r |-> string_convert_ext(sc.vc, opt, text \o tail, Len(text),
                                       unconv)]
  /\ UNCHANGED <<codec, comp, rd, conv, ic, cn, tab, cell,
               bom, up, cmp>>

\* The result of a conversion to UTF-8 is converted back: the context is
\* established again with the two names exchanged, vc_fail is set or not,
\* and string_convert is called on the result and its length.
StrConvertBack ==
  /\ sc.phase = "converted" /\ ~sc.r.failed
  /\ sc.vc.vc_type \in { "CONV_TO_UTF8", "CONV_9_TO_UTF8" }
  /\ \E nm \in StrPairs, fail \in BOOLEAN :
       /\ nm[1] = sc.to /\ nm[3] = sc.from
       /\ LET s == convert_setup_ext(sc.vc, sc.env, nm[1], nm[2], nm[3],
                                     nm[4], FALSE, FALSE)
              vc == [s.vcp EXCEPT !.vc_fail = fail]
          IN sc' = [phase |-> "back", vc |-> vc, env |-> s.env,
                    from |-> nm[1], to |-> nm[3], ret |-> s.ret,
                    orig |-> SubSeq(sc.ptr, 1, sc.len),
                    ptr |-> sc.r.retval \o <<NUL>>,
                    len |-> Len(sc.r.retval), opt |-> sc.opt,
                    r |-> string_convert_ext(vc, sc.opt,
                                             sc.r.retval \o <<NUL>>,
                                             Len(sc.r.retval), FALSE)]
  /\ UNCHANGED <<codec, comp, rd, conv, ic, cn, tab, cell,
               bom, up, cmp>>

StrNext == StrSetup \/ StrSetFail \/ StrConvert \/ StrConvertBack

SpecStrConv == StrInit /\ [][StrNext]_vars

\* The strategies of string_convert_ext that do not use iconv.
Internal ==
  { "CONV_TO_UTF8", "CONV_9_TO_UTF8", "CONV_TO_LATIN1", "CONV_TO_LATIN9" }

\* C18: with the fail flag clear string_convert never fails because of an
\* illegal or unconvertible character: on the UTF-8 to Latin-1/Latin-9
\* paths every illegal byte or codepoint outside the repertoire is passed
\* through or replaced; it fails on such input only with the fail flag set.
C18_NoFailureWithoutFailFlag ==
  (sc.phase = "converted" /\ sc.vc.vc_type \in Internal /\ ~sc.vc.vc_fail)
    => ~sc.r.failed

\* C19: for every internal strategy and every input of length len the
\* bytes string_convert_ext writes, the final NUL included, fit the buffer
\* it allocated (len*2+1, len*3+1, len+1), so the output length is at most
\* vc_factor times the input length.
C19_OutputFitsBuffer ==
  (sc.phase = "converted" /\ sc.vc.vc_type \in Internal) =>
    /\ sc.r.written <= sc.r.alloc
    /\ ~sc.r.failed =>
         Len(sc.r.retval) <= sc.vc.vc_factor * sc.len

\* The UTF-8 encodings of the codepoints of s, one after the other.
RECURSIVE EncodeAll(_)
EncodeAll(s) ==
  IF s = <<>> THEN <<>> ELSE utf_char2bytes(Head(s)) \o EncodeAll(Tail(s))

\* C20: establishing "latin1" to "utf-8" selects CONV_TO_UTF8 with factor 2
\* without opening a converter, and converting with it yields for each byte
\* b the UTF-8 encoding of the codepoint b: one byte for b < 0x80, two
\* bytes otherwise.
C20_Latin1ToUtf8 ==
  (sc.phase \in { "established", "converted" }
     /\ sc.from = "latin1" /\ sc.to = "utf-8") =>
    /\ sc.ret = "OK" /\ sc.vc.vc_type = "CONV_TO_UTF8"
    /\ sc.vc.vc_factor = 2 /\ ~sc.opened /\ sc.vc.vc_fd = sc.fd0
    /\ sc.env.nopen = 0
    /\ sc.phase = "converted" =>
         /\ ~sc.r.failed
         /\ sc.r.retval = EncodeAll(SubSeq(sc.ptr, 1, sc.len))
         /\ \A i \in 1..sc.len :
              Len(utf_char2bytes(sc.ptr[i]))
                = IF sc.ptr[i] < 128 THEN 1 ELSE 2

\* The byte 0xE9 was converted from "latin1" to "utf-8": C3 A9.
C20_Witness ==
  /\ sc.phase = "converted" /\ sc.from = "latin1" /\ sc.to = "utf-8"
  /\ sc.vc.vc_type = "CONV_TO_UTF8"
  /\ sc.len = 1 /\ sc.ptr[1] = 233 /\ sc.r.retval = <<195, 169>>

-----------------------------------------------------------------------------
(* remove_bom *)

MaxBomLen == 6

\* The bytes of the BOM and one other byte; a C string holds no NUL.
BomAlphabet == {239, 187, 191, 97}

RECURSIVE BomStrings(_)
BomStrings(n) ==
  IF n = 0 THEN {<<>>}
  ELSE BomStrings(n - 1)
         \cup {Append(s, b) : s \in {t \in BomStrings(n - 1) : Len(t) = n - 1},
                              b \in BomAlphabet}

\* The while loop of remove_bom: vim_strbyte(p, 0xef) finds the first 0xef
\* at or after p; STRMOVE(p, p + 3) leaves p where it is, ++p moves on.
RECURSIVE remove_bom_loop(_, _)
remove_bom_loop(s, p) ==
  LET hit == {i \in p..(Len(s) - 1) : B(s, i) = 239}
      q == CHOOSE i \in hit : \A j \in hit : i <= j
  IN IF hit = {} THEN s
     ELSE IF B(s, q + 1) = 187 /\ B(s, q + 2) = 191
            THEN remove_bom_loop(SubSeq(s, 1, q) \o SubSeq(s, q + 4, Len(s)),
                                 q)
            ELSE remove_bom_loop(s, q + 1)

\* remove_bom(s); enc_utf8 is always set.
remove_bom(s) == remove_bom_loop(s, 0)

BomInit ==
  /\ \E s \in BomStrings(MaxBomLen) : bom = [phase |-> "read", s |-> s]
  /\ codec = Idle /\ comp = Idle /\ rd = Idle /\ conv = Idle /\ ic = Idle
  /\ cn = Idle /\ tab = Idle /\ cell = Idle /\ sc = Idle
  /\ up = Idle /\ cmp = Idle

BomRemove ==
  /\ bom.phase = "read"
  /\ bom' = [phase |-> "stripped", s0 |-> bom.s, s |-> remove_bom(bom.s)]
  /\ UNCHANGED <<codec, comp, rd, conv, ic, cn, tab, cell, sc, up, cmp>>

SpecBom == BomInit /\ [][BomRemove]_vars

HasBom(s) ==
  \E i \in 0..(Len(s) - 3) :
    B(s, i) = 239 /\ B(s, i + 1) = 187 /\ B(s, i + 2) = 191

\* s is t with some bytes left out, the others in their order.
RECURSIVE IsSubsequence(_, _)
IsSubsequence(s, t) ==
  IF s = <<>> THEN TRUE
  ELSE IF t = <<>> THEN FALSE
  ELSE IF Head(s) = Head(t) THEN IsSubsequence(Tail(s), Tail(t))
  ELSE IsSubsequence(s, Tail(t))

\* C21: the string remove_bom leaves contains no EF BB BF sequence, and
\* the bytes it leaves are bytes of the original string in their original
\* order.
C21_NoBomRemains ==
  bom.phase = "stripped" =>
    ~HasBom(bom.s) /\ IsSubsequence(bom.s, bom.s0)

\* The part of C21 that holds: only whole BOM patterns are taken out.
C21_OrderKept ==
  bom.phase = "stripped" =>
    /\ IsSubsequence(bom.s, bom.s0)
    /\ (Len(bom.s0) - Len(bom.s)) % 3 = 0
    /\ ~HasBom(bom.s0) => bom.s = bom.s0

-----------------------------------------------------------------------------
(* Case mapping: utf_convert, utf_toupper *)

MaxCaseChar == 1280

\* Excerpt of the generated table toUpper: <<rangeStart, rangeEnd, step,
\* offset>>, Latin, Greek and Cyrillic small letters.
toUpper == <<
  <<97, 122, 1, -32>>, <<181, 181, -1, 743>>, <<224, 246, 1, -32>>,
  <<248, 254, 1, -32>>, <<255, 255, -1, 121>>, <<257, 303, 2, -1>>,
  <<305, 305, -1, -232>>, <<307, 311, 2, -1>>, <<314, 328, 2, -1>>,
  <<331, 375, 2, -1>>, <<378, 382, 2, -1>>, <<383, 383, -1, -300>>,
  <<384, 384, -1, 195>>, <<387, 389, 2, -1>>, <<392, 396, 4, -1>>,
  <<402, 402, -1, -1>>, <<405, 405, -1, 97>>, <<409, 409, -1, -1>>,
  <<410, 410, -1, 163>>, <<414, 414, -1, 130>>, <<417, 421, 2, -1>>,
  <<424, 429, 5, -1>>, <<432, 436, 4, -1>>, <<438, 441, 3, -1>>,
  <<445, 445, -1, -1>>, <<447, 447, -1, 56>>, <<453, 453, -1, -1>>,
  <<454, 454, -1, -2>>, <<456, 456, -1, -1>>, <<457, 457, -1, -2>>,
  <<459, 459, -1, -1>>, <<460, 460, -1, -2>>, <<462, 476, 2, -1>>,
  <<477, 477, -1, -79>>, <<479, 495, 2, -1>>,
  <<945, 961, 1, -32>>, <<962, 962, -1, -31>>, <<963, 971, 1, -32>>,
  <<1072, 1103, 1, -32>>, <<1104, 1119, 1, -80>> >>

\* utf_convert that does not look at the step of the range.
utf_convert_nostep(a, table) ==
  LET RECURSIVE search(_, _)
      search(start, end) ==
        IF start < end
          THEN LET mid == (end + start) \div 2
               IN IF table[mid + 1][2] < a THEN search(mid + 1, end)
                  ELSE search(start, mid)
          ELSE start
      start == search(0, Len(table))
  IN IF start < Len(table) /\ table[start + 1][1] <= a
          /\ a <= table[start + 1][2]
       THEN a + table[start + 1][4]
       ELSE a

\* utf_convert(a, table, n_items), n_items = Len(table).  a - rangeStart is
\* not negative where the remainder is taken, so that the C remainder by a
\* negative step is the remainder by its absolute value.
utf_convert(a, table) ==
  LET RECURSIVE search(_, _)
      search(start, end) ==
        IF start < end
          THEN LET mid == (end + start) \div 2
               IN IF table[mid + 1][2] < a THEN search(mid + 1, end)
                  ELSE search(start, mid)
          ELSE start
      start == search(0, Len(table))
      abs(x) == IF x < 0 THEN -x ELSE x
  IN IF start < Len(table) /\ table[start + 1][1] <= a
          /\ a <= table[start + 1][2]
          /\ (a - table[start + 1][1]) % abs(table[start + 1][3]) = 0
       THEN a + table[start + 1][4]
       ELSE a

\* utf_toupper(a) under cmp_flags = [keepascii, internal]; towupper() is
\* the Unicode mapping of the C library (__STDC_ISO_10646__) and
\* TOUPPER_LOC the toupper() of the "C" locale.
utf_toupper(a, cmp_flags) ==
  LET TOUPPER_ASC(c) == IF c < 97 \/ c > 122 THEN c ELSE c - 32
      towupper(c) == utf_convert(c, toUpper)
      TOUPPER_LOC(c) == TOUPPER_ASC(c)
  IN IF a < 128 /\ cmp_flags.keepascii THEN TOUPPER_ASC(a)
     ELSE IF ~cmp_flags.internal THEN towupper(a)
     ELSE IF a < 128 THEN TOUPPER_LOC(a)
     ELSE utf_convert(a, toUpper)

CaseFlags == [keepascii : BOOLEAN, internal : BOOLEAN]

CaseInit ==
  /\ \E f \in CaseFlags : up = [phase |-> "idle", cmp_flags |-> f]
  /\ codec = Idle /\ comp = Idle /\ rd = Idle /\ conv = Idle /\ ic = Idle
  /\ cn = Idle /\ tab = Idle /\ cell = Idle /\ sc = Idle
  /\ bom = Idle /\ cmp = Idle

\* u = utf_toupper(c)
CaseUpper ==
  /\ up.phase = "idle"
  /\ \E c \in (-1)..MaxCaseChar :
       up' = [phase |-> "upper", cmp_flags |-> up.cmp_flags, c |-> c,
              u |-> utf_toupper(c, up.cmp_flags)]
  /\ UNCHANGED <<codec, comp, rd, conv, ic, cn, tab, cell, sc, bom, cmp>>

\* uu = utf_toupper(u)
CaseUpperAgain ==
  /\ up.phase = "upper"
  /\ up' = [phase |-> "again", cmp_flags |-> up.cmp_flags, c |-> up.c,
            u |-> up.u, uu |-> utf_toupper(up.u, up.cmp_flags)]
  /\ UNCHANGED <<codec, comp, rd, conv, ic, cn, tab, cell, sc, bom, cmp>>

CaseNext == CaseUpper \/ CaseUpperAgain

SpecCase == CaseInit /\ [][CaseNext]_vars

\* C22: with keepascii set and the internal tables used, upper-casing is
\* idempotent: utf_toupper(utf_toupper(c)) = utf_toupper(c) for every
\* codepoint c.
C22_UpperIdempotent ==
  (up.phase = "again" /\ up.cmp_flags.keepascii /\ up.cmp_flags.internal)
    => up.uu = up.u

\* U+0103 was mapped to U+0102, which lies between the ends of the range
\* 0x101..0x12f but not on its step, and was mapped again.
C22_Witness ==
  /\ up.phase = "again" /\ up.cmp_flags.keepascii /\ up.cmp_flags.internal
  /\ up.c = 259 /\ up.u = 258 /\ up.uu = 258

\* C23: for size > 0 and a lead byte at p whose declared length exceeds
\* size while every continuation byte inside the size is well formed,
\* utf_ptr2cells_len returns 1 and reads no byte at an index >= size; a
\* lead byte followed inside the size by a byte that is not a continuation
\* byte gives 4.
C23_TruncatedIsOneCell ==
  (cell.phase = "measured_len" /\ cell.size > 0 /\ B(cell.p, 0) >= 128) =>
    LET len == utf8len_tab(B(cell.p, 0))
        m == Min(len, cell.size)
    IN /\ (len > cell.size /\ \A i \in 1..(m - 1) : IsCont(B(cell.p, i)))
            => cell.cells = 1 /\ cell.reads < cell.size
       /\ (len > 1 /\ \E i \in 1..(m - 1) : ~IsCont(B(cell.p, i)))
            => cell.cells = 4

\* The index at which ptr[len] ends in a lead byte whose declared length
\* exceeds the bytes left, all of them continuation bytes, the characters
\* before it being taken one by one from i on; -1 when it does not.
RECURSIVE IncompleteTail(_, _, _)
IncompleteTail(ptr, len, i) ==
  LET p == Adv(ptr, i)
      l == utf_ptr2len_len(p, len - i) IN
  IF i >= len THEN -1
  ELSE IF utf8len_tab_zero(B(p, 0)) > len - i /\ l > len - i THEN i
  ELSE IncompleteTail(ptr, len, i + l)

\* C24: string_convert_ext on a UTF-8 to Latin-1 or Latin-9 context with
\* unconvlenp not NULL, on an input whose characters convert and which ends
\* in a valid but incomplete multi-byte sequence, converts the characters
\* before that sequence only, sets *unconvlenp to the number of bytes of
\* the sequence and reads no byte at an index >= len.
C24_IncompleteTailLeft ==
  (sc.phase = "converted" /\ sc.unconvlenp
     /\ sc.vc.vc_type \in {"CONV_TO_LATIN1", "CONV_TO_LATIN9"}) =>
    LET k == IncompleteTail(sc.ptr, sc.len, 0)
        head == string_convert_ext(sc.vc, sc.opt, sc.ptr, k, TRUE)
    IN (k >= 0 /\ ~head.failed) =>
         /\ ~sc.r.failed
         /\ sc.r.retval = head.retval
         /\ sc.r.unconvlen = sc.len - k
         /\ sc.r.reads < sc.len

\* C25: whatever the converter reports in a run of iconv_string, the write
\* position to never exceeds the allocated length len of the result, and
\* the room tolen = len - done - 2 handed to the converter is never
\* negative (it never wraps around as a size_t).
C25_RoomNeverWraps ==
  (ic.phase \in {"loop", "done"} /\ ic.result = "allocated") =>
    /\ ic.to <= ic.len
    /\ ic.phase = "loop" => IconvTolen >= 0

\* C26: with the fail flag clear every illegal-sequence recovery step of
\* iconv_string skips a length l with 1 <= l <= the source length that
\* remained, whatever byte (NUL included) the converter reported as
\* illegal, so that the remaining length strictly decreases on each
\* recovery (which is what makes the loop end).
C26_RecoveryAdvances ==
  (ic.phase = "loop" /\ ic.last.kind = "skip") =>
    ic.last.l >= 1 /\ ic.fromlen >= 0

\* The bytes that the codepoints pcc[k..n-1], found one after the other
\* from p[pos] on, take up to and including the last; -1 when they are not
\* the codepoints found there.
RECURSIVE CharsExtent(_, _, _, _, _)
CharsExtent(p, pcc, pos, k, n) ==
  IF k = n THEN pos
  ELSE IF utf_ptr2char(Adv(p, pos)) # pcc[k] THEN -1
  ELSE CharsExtent(p, pcc, pos + utf_ptr2len(Adv(p, pos)), k + 1, n)

\* C27: when utfc_ptr2char finds fewer than 6 composing characters after
\* the first character of a NUL-terminated string p, the bytes of the base
\* character plus those of the composing characters it returns sum to
\* utfc_ptr2len(p).
C27_ExtentAgrees ==
  (comp.phase = "extent" /\ comp.i < MAX_MCO) =>
    /\ comp.c = utf_ptr2char(comp.p)
    /\ CharsExtent(comp.p, comp.pcc, utf_ptr2len(comp.p), 0, comp.i) = comp.n

\* LAM, ALEF, U+0300: utfc_ptr2char returned ALEF and U+0300 as composing
\* characters and utfc_ptr2len returned the 6 bytes of the three.
C27_Witness ==
  /\ comp.phase = "extent" /\ comp.p = <<217, 132, 216, 167, 204, 128, NUL>>
  /\ comp.c = 1604 /\ comp.i = 2 /\ comp.n = 6

\* C28: for every codepoint c >= 0x100 that lies in an interval listed in
\* classes, utf_class returns the class listed for its range: 0x2070 for
\* every c in 0x2070..0x207f, 0x2080 for every c in 0x2080..0x2094, and the
\* class of an interval that holds c for the others.
C28_ListedClass ==
  (tab.phase = "class" /\ tab.c >= 256 /\ tab.listed # {}) =>
    /\ tab.class \in { classes[i + 1][3] : i \in tab.listed }
    /\ (tab.c >= 8304 /\ tab.c <= 8319) => tab.class = 8304
    /\ (tab.c >= 8320 /\ tab.c <= 8340) => tab.class = 8320

\* C29: a Latin-1 or Latin-9 byte string converted to UTF-8 with the
\* internal strategy and converted back with the reverse internal strategy,
\* the fail flag set or clear, is the original byte string, for every byte
\* value 0x00..0xFF.
C29_LatinRoundTrip ==
  sc.phase = "back" =>
    /\ sc.vc.vc_type \in { "CONV_TO_LATIN1", "CONV_TO_LATIN9" }
    /\ ~sc.r.failed
    /\ sc.r.retval = sc.orig

\* The Latin-9 byte 0xBD (oe) went to UTF-8 as C5 93 and came back with
\* the fail flag set.
C29_Witness ==
  /\ sc.phase = "back" /\ sc.vc.vc_type = "CONV_TO_LATIN9" /\ sc.vc.vc_fail
  /\ sc.orig = <<189>> /\ sc.ptr = <<197, 147, NUL>>
  /\ sc.r.retval = <<189>>

-----------------------------------------------------------------------------
(* Case-insensitive comparison: utf_fold, utf_strnicmp, mb_strnicmp *)

MaxCmpLen == 3

\* Excerpt of the generated table foldCase: <<rangeStart, rangeEnd, step,
\* offset>>, Latin and Greek capital letters.
foldCase == <<
  <<65, 90, 1, 32>>, <<181, 181, -1, 775>>, <<192, 214, 1, 32>>,
  <<216, 222, 1, 32>>, <<256, 302, 2, 1>>, <<913, 929, 1, 32>> >>

\* utf_fold(a)
utf_fold(a) == utf_convert(a, foldCase)

\* utf_strnicmp with the folded character of the string that had no error
\* left out of the bytewise comparison (s1 and s2 as they are).
utf_strnicmp_nofold(s1, s2, n1, n2) ==
  LET RECURSIVE bytewise(_, _, _, _)
      bytewise(t1, m1, t2, m2) ==
        IF m1 > 0 /\ m2 > 0 /\ B(t1, 0) # NUL /\ B(t2, 0) # NUL
          THEN IF B(t1, 0) # B(t2, 0) THEN B(t1, 0) - B(t2, 0)
               ELSE bytewise(Adv(t1, 1), m1 - 1, Adv(t2, 1), m2 - 1)
          ELSE LET e1 == m1 = 0 \/ B(t1, 0) = NUL
                   e2 == m2 = 0 \/ B(t2, 0) = NUL
               IN IF e1 /\ e2 THEN 0 ELSE IF e1 THEN -1 ELSE 1
      RECURSIVE chars(_, _, _, _)
      chars(t1, m1, t2, m2) ==
        LET r1 == utf_safe_read_char_adv(t1, m1)
            r2 == utf_safe_read_char_adv(t2, m2)
            c1 == r1.ret
            c2 == r2.ret
            u1 == Adv(t1, r1.adv)
            u2 == Adv(t2, r2.adv)
        IN IF c1 <= 0 \/ c2 <= 0
             THEN IF c1 = 0 \/ c2 = 0
                    THEN IF c1 = 0 /\ c2 = 0 THEN 0
                         ELSE IF c1 = 0 THEN -1 ELSE 1
                    ELSE bytewise(u1, m1 - r1.adv, u2, m2 - r2.adv)
           ELSE IF c1 = c2 \/ utf_fold(c1) - utf_fold(c2) = 0
             THEN chars(u1, m1 - r1.adv, u2, m2 - r2.adv)
           ELSE utf_fold(c1) - utf_fold(c2)
  IN chars(s1, n1, s2, n2)

\* utf_strnicmp(s1, s2, n1, n2): chars is the first loop, bytewise the
\* second one with the tests that follow it.
utf_strnicmp(s1, s2, n1, n2) ==
  LET RECURSIVE bytewise(_, _, _, _)
      bytewise(t1, m1, t2, m2) ==
        IF m1 > 0 /\ m2 > 0 /\ B(t1, 0) # NUL /\ B(t2, 0) # NUL
          THEN IF B(t1, 0) # B(t2, 0) THEN B(t1, 0) - B(t2, 0)
               ELSE bytewise(Adv(t1, 1), m1 - 1, Adv(t2, 1), m2 - 1)
          ELSE LET e1 == m1 = 0 \/ B(t1, 0) = NUL
                   e2 == m2 = 0 \/ B(t2, 0) = NUL
               IN IF e1 /\ e2 THEN 0 ELSE IF e1 THEN -1 ELSE 1
      RECURSIVE chars(_, _, _, _)
      chars(t1, m1, t2, m2) ==
        LET r1 == utf_safe_read_char_adv(t1, m1)
            r2 == utf_safe_read_char_adv(t2, m2)
            c1 == r1.ret
            c2 == r2.ret
            u1 == Adv(t1, r1.adv)
            u2 == Adv(t2, r2.adv)
            buffer(c) == utf_char2bytes(utf_fold(c))
        IN IF c1 <= 0 \/ c2 <= 0
             THEN IF c1 = 0 \/ c2 = 0
                    THEN IF c1 = 0 /\ c2 = 0 THEN 0
                         ELSE IF c1 = 0 THEN -1 ELSE 1
                  ELSE IF c1 # -1 /\ c2 = -1
                    THEN bytewise(buffer(c1), Len(buffer(c1)),
                                  u2, m2 - r2.adv)
                  ELSE IF c2 # -1 /\ c1 = -1
                    THEN bytewise(u1, m1 - r1.adv,
                                  buffer(c2), Len(buffer(c2)))
                  ELSE bytewise(u1, m1 - r1.adv, u2, m2 - r2.adv)
           ELSE IF c1 = c2 \/ utf_fold(c1) - utf_fold(c2) = 0
             THEN chars(u1, m1 - r1.adv, u2, m2 - r2.adv)
           ELSE utf_fold(c1) - utf_fold(c2)
  IN chars(s1, n1, s2, n2)

\* mb_strnicmp(s1, s2, nn); enc_utf8 is always set.
mb_strnicmp(s1, s2, nn) == utf_strnicmp(s1, s2, nn, nn)

\* The strings compared: up to two of 'A', 'a', U+00E9, U+00C9, a lone lead
\* byte, an illegal byte and an overlong 'A'.
CmpStrings ==
  LET tokens == { <<65>>, <<97>>, <<195, 169>>, <<195, 137>>, <<195>>,
                  <<128>>, <<193, 129>> }
  IN { x \o y : x \in tokens \cup { <<>> }, y \in tokens \cup { <<>> } }

\* Specification: three NUL-terminated strings are compared two by two
\* under one length bound nn.
CmpInit ==
  /\ \E a \in CmpStrings, nn \in 1..MaxCmpLen :
       cmp = [phase |-> "one", a |-> a, nn |-> nn]
  /\ codec = Idle /\ comp = Idle /\ rd = Idle /\ conv = Idle /\ ic = Idle
  /\ cn = Idle /\ tab = Idle /\ cell = Idle /\ sc = Idle
  /\ bom = Idle /\ up = Idle

\* mb_strnicmp(a, a, nn), mb_strnicmp(a, b, nn) and mb_strnicmp(b, a, nn)
CmpSecond ==
  /\ cmp.phase = "one"
  /\ \E b \in CmpStrings :
       cmp' = [phase |-> "two", a |-> cmp.a, b |-> b, nn |-> cmp.nn,
               aa |-> mb_strnicmp(cmp.a, cmp.a, cmp.nn),
               ab |-> mb_strnicmp(cmp.a, b, cmp.nn),
               ba |-> mb_strnicmp(b, cmp.a, cmp.nn)]
  /\ UNCHANGED <<codec, comp, rd, conv, ic, cn, tab, cell, sc, bom, up>>

\* mb_strnicmp(b, c, nn) and mb_strnicmp(a, c, nn)
CmpThird ==
  /\ cmp.phase = "two"
  /\ \E c \in CmpStrings :
       cmp' = [phase |-> "three", a |-> cmp.a, b |-> cmp.b, c |-> c,
               nn |-> cmp.nn, aa |-> cmp.aa, ab |-> cmp.ab, ba |-> cmp.ba,
               bc |-> mb_strnicmp(cmp.b, c, cmp.nn),
               ac |-> mb_strnicmp(cmp.a, c, cmp.nn)]
  /\ UNCHANGED <<codec, comp, rd, conv, ic, cn, tab, cell, sc, bom, up>>

CmpNext == CmpSecond \/ CmpThird

SpecCompare == CmpInit /\ [][CmpNext]_vars

\* -1, 0 or 1 as x is negative, zero or positive.
Sign(x) == IF x < 0 THEN -1 ELSE IF x > 0 THEN 1 ELSE 0

\* C30: under one length bound the comparison is an ordering, also on
\* strings with illegal or incomplete sequences: compare(a, a) = 0, the
\* sign of compare(a, b) is the opposite of the sign of compare(b, a), and
\* compare(a, b) <= 0 with compare(b, c) <= 0 gives compare(a, c) <= 0.
C30_CompareTransitive ==
  /\ cmp.phase \in { "two", "three" } =>
       cmp.aa = 0 /\ Sign(cmp.ab) = -Sign(cmp.ba)
  /\ (cmp.phase = "three" /\ cmp.ab <= 0 /\ cmp.bc <= 0) => cmp.ac <= 0

\* With nn = 3: "a" then an illegal byte 0x80, "A" then a lone lead byte
\* C3, and U+00E9 alone compare as a < b, b < c and a < c.
C30_Witness ==
  /\ cmp.phase = "three" /\ cmp.nn = 3
  /\ cmp.a = <<97, 128>> /\ cmp.b = <<65, 195>> /\ cmp.c = <<195, 169>>
  /\ cmp.ab < 0 /\ cmp.bc < 0 /\ cmp.ac < 0

====
